---------------------------- MODULE Spec2Model ----------------------------
(***************************************************************************)
(* A model of the ACME authorization handler of lets-encrypt-preview       *)
(* (letsencrypt/auth_handler.py): AuthHandler.get_authorizations with its  *)
(* helpers, the path planner gen_challenge_path, and the environment the   *)
(* handler talks to (the two authenticators and the network port), which   *)
(* answers nondeterministically.                                           *)
(*                                                                         *)
(* Conventions.  A challenge variant is the string of its class name.  An  *)
(* index into an authorization's challenge sequence is 0-based as in the   *)
(* source; TLA+ sequences being 1-based, challbs[i + 1] is the source's    *)
(* challbs[i].  An exception leaving get_authorizations is recorded in     *)
(* outcome as [kind, msg].                                                 *)
(***************************************************************************)
EXTENDS Integers, Sequences, FiniteSets, TLC

(***************************************************************************)
(* Bounds of the model.                                                    *)
(***************************************************************************)
\* network.request_domain_challenges calls over the life of the one handler:
\* a call for two domains, or two calls for one domain each
MaxRequests == 2
\* polling rounds of one _poll_challenges call (the parameter max_rounds,
\* whose default is 15, scaled down)
max_rounds == 2
\* gen_challenge_path on its own: the challenges an authorization offers,
\* the preferences, and the combinations the server lists, at most
MaxOffered == 2
MaxPreferences == 2
MaxCombinations == 2
\* Client.register calls over the life of one client
MaxRegisters == 1
\* get_authorizations calls that one client's obtain_certificate makes
MaxObtains == 1

(***************************************************************************)
(* acme.challenges: the variants and their two capability families.        *)
(***************************************************************************)
DVChallenge == {"DVSNI", "SimpleHTTP", "DNS"}
ContinuityChallenge == {"RecoveryToken", "RecoveryContact", "ProofOfPossession"}

\* constants.EXCLUSIVE_CHALLENGES
EXCLUSIVE_CHALLENGES == {{"DVSNI", "SimpleHTTP"}}

\* acme.messages status constants
STATUS_VALID == "valid"
STATUS_INVALID == "invalid"

(***************************************************************************)
(* Sequence helpers.                                                       *)
(***************************************************************************)
Range(s) == {s[i] : i \in 1..Len(s)}

\* list.remove(x): drops the first element equal to x
RECURSIVE RemoveFirst(_, _)
RemoveFirst(s, x) ==
    IF s = <<>> THEN <<>>
    ELSE IF Head(s) = x THEN Tail(s)
    ELSE <<Head(s)>> \o RemoveFirst(Tail(s), x)

\* for x in xs: s.remove(x), xs a list of its own
RECURSIVE RemoveAll(_, _)
RemoveAll(s, xs) ==
    IF xs = <<>> THEN s ELSE RemoveAll(RemoveFirst(s, Head(xs)), Tail(xs))

\* for x in s: s.remove(x), the loop running over the very list it shrinks:
\* the list iterator holds a position, so after the element at position i is
\* removed the loop goes on at position i + 1 of the shortened list.
RECURSIVE RemoveWhileIterating(_, _)
RemoveWhileIterating(s, i) ==
    IF i > Len(s) THEN s
    ELSE RemoveWhileIterating(RemoveFirst(s, s[i]), i + 1)

\* the elements of s whose position carries a truthy flag
RECURSIVE SelectByFlag(_, _)
SelectByFlag(s, flags) ==
    IF s = <<>> \/ flags = <<>> THEN <<>>
    ELSE (IF Head(flags) THEN <<Head(s)>> ELSE <<>>)
             \o SelectByFlag(Tail(s), Tail(flags))

(***************************************************************************)
(* The path planner.                                                       *)
(***************************************************************************)
\* mutually_exclusive(obj1, obj2, groups, different): FALSE when some group
\* holds both variants (and, with different set, they are not the same
\* variant), TRUE otherwise.  The presence flags only accumulate over a
\* group, so the order in which the group is walked does not matter.
mutually_exclusive(typ1, typ2, groups, different) ==
    ~ \E group \in groups :
          /\ typ1 \in group
          /\ typ2 \in group
          /\ (~different \/ typ1 # typ2)

\* Faulty variant: nothing is ever excluded.
is_preferred_Always(typ, satisfied) == TRUE

\* is_preferred(offered_challb, satisfied), satisfied given by its variants
is_preferred(typ, satisfied) ==
    \A t \in satisfied : mutually_exclusive(typ, t, EXCLUSIVE_CHALLENGES, TRUE)

\* max_cost = 1 + the sum of the indices 0 .. n-1 of the preferences
RECURSIVE MaxCost(_)
MaxCost(n) == IF n = 0 THEN 1 ELSE (n - 1) + MaxCost(n - 1)

\* chall_cost.get(cls, max_cost): the index of the last preference equal to
\* the class (a later enumerate entry overwrites an earlier one)
ChallCost(preferences, typ) ==
    LET at == {i \in 1..Len(preferences) : preferences[i] = typ}
    IN  IF at = {} THEN MaxCost(Len(preferences))
        ELSE (CHOOSE i \in at : \A j \in at : j <= i) - 1

RECURSIVE ComboTotal(_, _, _)
ComboTotal(combo, challbs, preferences) ==
    IF combo = <<>> THEN 0
    ELSE ChallCost(preferences, challbs[Head(combo) + 1].typ)
             + ComboTotal(Tail(combo), challbs, preferences)

\* Faulty variant: a combination of equal cost replaces the best so far.
RECURSIVE SmartScanLastWins(_, _, _, _, _)
SmartScanLastWins(combinations, challbs, preferences, best_combo, best_combo_cost) ==
    IF combinations = <<>> THEN best_combo
    ELSE LET combo_total == ComboTotal(Head(combinations), challbs, preferences)
         IN  IF combo_total <= best_combo_cost
             THEN SmartScanLastWins(Tail(combinations), challbs, preferences,
                                    Head(combinations), combo_total)
             ELSE SmartScanLastWins(Tail(combinations), challbs, preferences,
                                    best_combo, best_combo_cost)

RECURSIVE SmartScan(_, _, _, _, _)
SmartScan(combinations, challbs, preferences, best_combo, best_combo_cost) ==
    IF combinations = <<>> THEN best_combo
    ELSE LET combo_total == ComboTotal(Head(combinations), challbs, preferences)
         IN  IF combo_total < best_combo_cost
             THEN SmartScan(Tail(combinations), challbs, preferences,
                            Head(combinations), combo_total)
             ELSE SmartScan(Tail(combinations), challbs, preferences,
                            best_combo, best_combo_cost)

_find_smart_path(challbs, preferences, combinations) ==
    LET best_combo == SmartScan(combinations, challbs, preferences, <<>>,
                                MaxCost(Len(preferences)))
    IN  IF best_combo = <<>>
        THEN [kind |-> "AuthorizationError", path |-> <<>>]
        ELSE [kind |-> "ok", path |-> best_combo]

\* the two nested loops of _find_dumb_path: preference p, offered index i
\* (0-based), the path so far and the variants satisfied so far
RECURSIVE DumbScan(_, _, _, _, _, _)
DumbScan(challbs, preferences, p, i, path, satisfied) ==
    IF p > Len(preferences) THEN path
    ELSE IF i >= Len(challbs)
         THEN DumbScan(challbs, preferences, p + 1, 0, path, satisfied)
    ELSE IF challbs[i + 1].typ = preferences[p]
            /\ is_preferred(challbs[i + 1].typ, satisfied)
         THEN DumbScan(challbs, preferences, p, i + 1, Append(path, i),
                       satisfied \cup {challbs[i + 1].typ})
    ELSE DumbScan(challbs, preferences, p, i + 1, path, satisfied)

\* Faulty variant: the preferred challenges in the order they are offered.
_find_dumb_path_OfferedOrder(challbs, preferences) ==
    LET Preferred(i) == challbs[i + 1].typ \in Range(preferences)
        RECURSIVE Walk(_)
        Walk(i) == IF i >= Len(challbs) THEN <<>>
                   ELSE (IF Preferred(i) THEN <<i>> ELSE <<>>) \o Walk(i + 1)
    IN  [kind |-> "ok", path |-> Walk(0)]

_find_dumb_path(challbs, preferences) ==
    IF Len(preferences) # Cardinality(Range(preferences))
    THEN [kind |-> "AssertionError", path |-> <<>>]
    ELSE [kind |-> "ok", path |-> DumbScan(challbs, preferences, 1, 0, <<>>, {})]

gen_challenge_path(challbs, preferences, combinations) ==
    IF combinations # <<>>
    THEN _find_smart_path(challbs, preferences, combinations)
    ELSE _find_dumb_path(challbs, preferences)


(***************************************************************************)
(* The environment: domains, the authenticators' preferences and the       *)
(* authorizations the server offers.                                       *)
(***************************************************************************)
DomainNames == <<"a.test", "b.test">>
Domains == Range(DomainNames)

\* The domains one call may be given: any nonempty set of domains (the
\* documented type of the argument).  "for domain in domains" walks a set in
\* an order the language does not fix, so a call is given any walk of the
\* set: a sequence of its domains without repetition.
InOrder(S) ==
    {l \in [1..Cardinality(S) -> S] : \A i, j \in 1..Cardinality(S) :
                                          l[i] = l[j] => i = j}

DomainLists == UNION {InOrder(S) : S \in (SUBSET Domains) \ {{}}}

\* cont_auth.get_chall_pref(domain) and dv_auth.get_chall_pref(domain)
cont_chall_pref == <<"RecoveryToken">>
dv_chall_pref == <<"DVSNI", "SimpleHTTP", "DNS">>

\* AuthHandler._get_chall_pref
_get_chall_pref == cont_chall_pref \o dv_chall_pref

\* What network.request_domain_challenges may return: the offered challenge
\* variants and the combinations (empty when the server gives no hint).
AuthzOffers ==
    { [challs |-> <<"RecoveryToken">>, combos |-> << <<0>> >>],
      [challs |-> <<"DVSNI">>, combos |-> <<>>],
      [challs |-> <<"ProofOfPossession">>, combos |-> << <<0>> >>] }

\* a domain without an entry in the handler's authzr dict
NoAuthz == [status |-> "absent", challs |-> <<>>, combos |-> <<>>]

\* A fresh authorization, pending.  A stored authorization keeps the body
\* status, the challenges' variants and the combinations; the status of each
\* challenge is read by _handle_check only from the authorization that
\* network.poll has just returned, so it stays with the poll response.
NewAuthz(offer) ==
    [status |-> "pending",
     challs |-> [i \in 1..Len(offer.challs) |-> [typ |-> offer.challs[i]]],
     combos |-> offer.combos]

Stored(az) ==
    [status |-> az.status,
     challs |-> [i \in 1..Len(az.challs) |-> [typ |-> az.challs[i].typ]],
     combos |-> az.combos]

\* the statuses network.poll reports for an authorization body and for a
\* challenge (the handler tells valid, invalid and anything else apart)
PollBodyStatuses == {"pending", "valid", "invalid", "revoked"}
PollChallStatuses == {"pending", "valid", "invalid"}

\* What network.poll may return for an authorization: any body status with
\* any challenge statuses, or an authorization that lists no challenge.
PollResponses(az) ==
    { [status |-> s,
       challs |-> [i \in 1..Len(az.challs) |->
                      [typ |-> az.challs[i].typ, status |-> cs[i]]],
       combos |-> az.combos] :
          s \in PollBodyStatuses,
          cs \in [1..Len(az.challs) -> PollChallStatuses] }
        \cup {[status |-> "pending", challs |-> <<>>, combos |-> az.combos]}

(***************************************************************************)
(* The state.                                                              *)
(***************************************************************************)
VARIABLES
    authzr,          \* self.authzr: domain -> authorization, NoAuthz if no key
    dv_c,            \* self.dv_c
    cont_c,          \* self.cont_c
    pc,              \* where get_authorizations stands
    call,            \* the number of calls started on the handler
    requests,        \* the number of authorizations requested so far
    domains,         \* argument of the running call
    best_effort,     \* argument of the running call
    idx,             \* position of the request loop in domains
    cont_resp,       \* _solve_challenges' result
    dv_resp,
    chall_update,    \* _respond's local: domain -> answered achalls
    active_achalls,  \* _respond's local
    dom_to_check,    \* _poll_challenges' locals
    comp_domains,
    to_visit,        \* what "for domain in dom_to_check" has yet to visit
    rounds,
    outcome,         \* how the call ended: [kind, msg, dom]
    result,          \* the returned list: [domain, status] per resource
    performed,       \* history: achalls passed to an authenticator's perform
    perform_log,     \* history: the perform calls of the round, in order
    cleaned,         \* history: achalls passed to an authenticator's cleanup
    answered,        \* history: achalls network.answer_challenge took in this call
    last_cleanup,    \* history: the last _cleanup_challenges call and the cleanup calls it made
    answer_log,      \* history: network.answer_challenge calls of the round
    timed_out,       \* history: domains pending when polling hit max_rounds
                     \*          and not polled since
    chall_failed,    \* history: domains polled with a failed challenge
    polled,          \* history: the network.poll calls of the polling phase,
                     \*          as <<round, domain>>
    sleeps,          \* history: the time.sleep calls of the polling phase
    last_poll,       \* history: the last poll of the phase: the domain, what
                     \*          the server answered, the achalls outstanding
    plan_in,         \* gen_challenge_path on its own: the arguments
    plan_out,        \*   and the result
    auth_handler_set,\* Client: self.auth_handler is not None
    config_tos,      \* Client: self.config.tos
    account,         \* Client: self.account, by its regr
    disk,            \* the account file: the regr account.save wrote
    c_pc,            \* Client: "idle", or "authz" inside get_authorizations
    enroll,          \* Client: obtain_certificate runs (last ran) inside
                     \*   obtain_and_enroll_certificate
    registers,       \* the number of register calls so far
    client_log,      \* history: what the running / last client call did
    reports,         \* history: the reports the last client call emitted
    issued_with,     \* history: what request_issuance was given
    client_outcome,  \* how the last client call ended: [kind, msg]
    acc,             \* account.py: the Account in hand
    accounts_dir,    \* config.accounts_dir: file name -> account file
    account_keys_dir,\* config.account_keys_dir: the key files there
    acc_made,        \* the number of accounts made so far
    saves,           \* the number of Account.save calls so far
    acc_saved,       \* history: the Account in hand was saved as it is
    acc_call,        \* the last account operation: [op, arg, kind, msg]
    acc_loaded,      \* what from_existing_account returned
    err_in,          \* acme Error typ on its own: the input
    err_out,         \*   and the result
    _chall_out,      \* NginxConfigurator._chall_out
    http_block,      \* the main nginx configuration has an http block
    nginx_calls,     \* the number of perform and cleanup calls so far
    nginx_call,      \* the last perform or cleanup call and what it did
    unfinished       \* history: achalls performed and not cleaned up since

vars == <<authzr, dv_c, cont_c, pc, call, requests, domains, best_effort, idx,
          cont_resp, dv_resp, chall_update, active_achalls, dom_to_check,
          comp_domains, to_visit, rounds, outcome, result, performed,
          perform_log, cleaned, last_cleanup, answered, answer_log, timed_out, chall_failed,
          polled, sleeps, last_poll, plan_in, plan_out, auth_handler_set, config_tos, account, disk,
          c_pc, enroll, registers, client_log, reports, issued_with, client_outcome,
          acc, accounts_dir, account_keys_dir, acc_made, saves, acc_saved,
          acc_call, acc_loaded, err_in, err_out, _chall_out, http_block,
          nginx_calls, nginx_call, unfinished>>

plan_vars == <<plan_in, plan_out>>
client_vars == <<auth_handler_set, config_tos, account, disk, c_pc, enroll, registers,
                 client_log, reports, issued_with, client_outcome>>

store_vars == <<acc, accounts_dir, account_keys_dir, acc_made, saves, acc_saved,
                acc_call, acc_loaded>>
wire_vars == <<err_in, err_out>>
nginx_vars == <<_chall_out, http_block, nginx_calls, nginx_call, unfinished>>

\* the variables that are not the handler's
outside_vars == <<plan_vars, client_vars, store_vars, wire_vars, nginx_vars>>

Running == [kind |-> "running", msg |-> "", dom |-> ""]

\* no poll made in the phase yet
\* no _cleanup_challenges call in this get_authorizations call yet
NoCleanup == [given |-> FALSE, achall_list |-> <<>>, calls |-> <<>>]

NoPoll == [domain |-> "", authzr |-> NoAuthz, achalls |-> <<>>]
Raise(kind, msg) == [kind |-> kind, msg |-> msg, dom |-> ""]

\* the keys of self.authzr
AuthzrKeys == {d \in Domains : authzr[d] # NoAuthz}

\* the keys of a chall_update dict (a key's list is never empty)
Keys(cu) == {d \in Domains : cu[d] # <<>>}

Family(typ) == IF typ \in DVChallenge THEN "dv" ELSE "cont"

\* AuthHandler.__init__
Init ==
    /\ authzr = [d \in Domains |-> NoAuthz]
    /\ dv_c = <<>>
    /\ cont_c = <<>>
    /\ pc = "idle"
    /\ call = 0
    /\ requests = 0
    /\ domains = <<>>
    /\ best_effort = FALSE
    /\ idx = 1
    /\ cont_resp = <<>>
    /\ dv_resp = <<>>
    /\ chall_update = [d \in Domains |-> <<>>]
    /\ active_achalls = <<>>
    /\ dom_to_check = {}
    /\ comp_domains = {}
    /\ to_visit = {}
    /\ rounds = 0
    /\ outcome = Running
    /\ result = {}
    /\ performed = {}
    /\ perform_log = <<>>
    /\ cleaned = {}
    /\ last_cleanup = NoCleanup
    /\ answered = {}
    /\ answer_log = <<>>
    /\ timed_out = {}
    /\ chall_failed = {}
    /\ polled = {}
    /\ sleeps = 0
    /\ last_poll = NoPoll

(***************************************************************************)
(* get_authorizations, step by step.                                       *)
(***************************************************************************)
\* A call starts.  The locals of the previous call are gone; the handler's
\* authzr, dv_c and cont_c are whatever the previous call left.
Call(doms, be) ==
    /\ pc \in {"idle", "done"}
    /\ polled' = {}
    /\ sleeps' = 0
    /\ last_poll' = NoPoll
    /\ requests + Len(doms) <= MaxRequests
    /\ call' = call + 1
    /\ domains' = doms
    /\ best_effort' = be
    /\ idx' = 1
    /\ pc' = "request"
    /\ outcome' = Running
    /\ result' = {}
    /\ performed' = {}
    /\ perform_log' = <<>>
    /\ cleaned' = {}
    /\ last_cleanup' = NoCleanup
    /\ answered' = {}
    /\ answer_log' = <<>>
    /\ timed_out' = {}
    /\ chall_failed' = {}
    /\ UNCHANGED <<authzr, dv_c, cont_c, requests, cont_resp, dv_resp,
                   chall_update, active_achalls, dom_to_check, comp_domains,
                   to_visit, rounds>>

\* One pass of "for domain in domains: self.authzr[domain] = ...".
RequestDomainChallenges(offer) ==
    /\ pc = "request"
    /\ UNCHANGED <<polled, sleeps, last_poll>>
    /\ authzr' = [authzr EXCEPT ![domains[idx]] = NewAuthz(offer)]
    /\ requests' = requests + 1
    /\ idx' = IF idx = Len(domains) THEN 1 ELSE idx + 1
    /\ pc' = IF idx = Len(domains) THEN "choose" ELSE "request"
    /\ UNCHANGED <<dv_c, cont_c, call, domains, best_effort, cont_resp,
                   dv_resp, chall_update, active_achalls, dom_to_check,
                   comp_domains, to_visit, rounds, outcome, result,
                   performed, perform_log, cleaned, last_cleanup, answered, answer_log, timed_out, chall_failed>>

\* challb_to_achall: the annotated challenge of challenge index i of the
\* domain's authorization, as requested in call c
Achall(c, dom, i, typ) == [call |-> c, domain |-> dom, idx |-> i, typ |-> typ]

\* Faulty variant: every achall of the path goes to both lists.
RECURSIVE _challenge_factory_BothLists(_, _, _, _, _)
_challenge_factory_BothLists(c, dom, challbs, path, family) ==
    IF path = <<>> THEN <<>>
    ELSE <<Achall(c, dom, Head(path), challbs[Head(path) + 1].typ)>>
             \o _challenge_factory_BothLists(c, dom, challbs, Tail(path), family)

\* _challenge_factory(domain, path): the achalls of one family, in path order
RECURSIVE _challenge_factory(_, _, _, _, _)
_challenge_factory(c, dom, challbs, path, family) ==
    IF path = <<>> THEN <<>>
    ELSE LET typ == challbs[Head(path) + 1].typ
         IN  (IF Family(typ) = family
              THEN <<Achall(c, dom, Head(path), typ)>> ELSE <<>>)
                 \o _challenge_factory(c, dom, challbs, Tail(path), family)

\* Faulty variant: a domain no path can be planned for is left out and the
\* call goes on with the others.
RECURSIVE _choose_challenges_SkipsUnplanned(_, _, _, _, _)
_choose_challenges_SkipsUnplanned(c, doms, k, dv, cont) ==
    IF k > Len(doms) THEN [kind |-> "ok", dv_c |-> dv, cont_c |-> cont]
    ELSE LET dom  == doms[k]
             plan == gen_challenge_path(authzr[dom].challs, _get_chall_pref,
                                        authzr[dom].combos)
         IN  IF plan.kind # "ok"
             THEN _choose_challenges_SkipsUnplanned(c, doms, k + 1, dv, cont)
             ELSE _choose_challenges_SkipsUnplanned(c, doms, k + 1,
                     dv \o _challenge_factory(c, dom, authzr[dom].challs,
                                              plan.path, "dv"),
                     cont \o _challenge_factory(c, dom, authzr[dom].challs,
                                                plan.path, "cont"))

\* _choose_challenges from domain number k on: the lists as extended so far,
\* and how the loop ended (a planner error leaves the lists as they are)
RECURSIVE _choose_challenges(_, _, _, _, _)
_choose_challenges(c, doms, k, dv, cont) ==
    IF k > Len(doms) THEN [kind |-> "ok", dv_c |-> dv, cont_c |-> cont]
    ELSE LET dom  == doms[k]
             plan == gen_challenge_path(authzr[dom].challs, _get_chall_pref,
                                        authzr[dom].combos)
         IN  IF plan.kind # "ok"
             THEN [kind |-> plan.kind, dv_c |-> dv, cont_c |-> cont]
             ELSE _choose_challenges(c, doms, k + 1,
                     dv \o _challenge_factory(c, dom, authzr[dom].challs,
                                              plan.path, "dv"),
                     cont \o _challenge_factory(c, dom, authzr[dom].challs,
                                                plan.path, "cont"))

ChooseChallenges ==
    /\ pc = "choose"
    /\ UNCHANGED <<polled, sleeps, last_poll>>
    /\ LET r == _choose_challenges(call, domains, 1, dv_c, cont_c)
       IN  /\ dv_c' = r.dv_c
           /\ cont_c' = r.cont_c
           /\ IF r.kind = "ok"
              THEN pc' = "loop" /\ outcome' = outcome
              ELSE pc' = "done" /\ outcome' = Raise(r.kind, "planning")
    /\ UNCHANGED <<authzr, call, requests, domains, best_effort, idx, cont_resp,
                   dv_resp, chall_update, active_achalls, dom_to_check,
                   comp_domains, to_visit, rounds, result, performed, perform_log,
                   cleaned, last_cleanup, answered, answer_log, timed_out, chall_failed>>

(***************************************************************************)
(* _cleanup_challenges.                                                    *)
(***************************************************************************)
\* the achalls of a list that belong to one family, in order
RECURSIVE OfFamily(_, _)
OfFamily(achalls, family) ==
    IF achalls = <<>> THEN <<>>
    ELSE (IF Family(Head(achalls).typ) = family THEN <<Head(achalls)>> ELSE <<>>)
             \o OfFamily(Tail(achalls), family)

\* the cleanup calls of one _cleanup_challenges, in order: dv_auth.cleanup
\* and then cont_auth.cleanup, each only for a nonempty list
CleanupCalls(dv, cont) ==
    (IF dv = <<>> THEN <<>> ELSE <<[auth |-> "dv", achalls |-> dv]>>)
    \o (IF cont = <<>> THEN <<>> ELSE <<[auth |-> "cont", achalls |-> cont]>>)

\* _cleanup_challenges(): dv_c and cont_c are the handler's own lists, and
\* the removal loop runs over the list it removes from.
CleanupAll ==
    [dv_c    |-> RemoveWhileIterating(dv_c, 1),
     cont_c  |-> RemoveWhileIterating(cont_c, 1),
     cleaned |-> Range(dv_c) \cup Range(cont_c),
     calls   |-> CleanupCalls(dv_c, cont_c)]

\* Faulty variant: the given list is ignored and everything outstanding is
\* cleaned up and removed.
CleanupList_Everything(achall_list) ==
    [dv_c    |-> <<>>,
     cont_c  |-> <<>>,
     cleaned |-> Range(dv_c) \cup Range(cont_c),
     calls   |-> CleanupCalls(dv_c, cont_c)]

\* _cleanup_challenges(achall_list): the list is split by family into two
\* new lists, each cleaned up and removed from the handler's list.
CleanupList(achall_list) ==
    [dv_c    |-> RemoveAll(dv_c, OfFamily(achall_list, "dv")),
     cont_c  |-> RemoveAll(cont_c, OfFamily(achall_list, "cont")),
     cleaned |-> Range(achall_list),
     calls   |-> CleanupCalls(OfFamily(achall_list, "dv"),
                              OfFamily(achall_list, "cont"))]

(***************************************************************************)
(* _solve_challenges.                                                      *)
(***************************************************************************)
\* What an authenticator's perform may do with a list of achalls: return a
\* response per achall (TRUE truthy, FALSE falsy), return one response too
\* few or one too many, raise AuthorizationError, or raise another exception.  An empty list
\* is not passed to perform at all.
PerformOutcomes(achalls) ==
    IF achalls = <<>> THEN {[kind |-> "skipped", resp |-> <<>>]}
    ELSE {[kind |-> "responses", resp |-> r] :
              r \in [1..Len(achalls) -> BOOLEAN]}
         \cup {[kind |-> "responses",
                resp |-> [i \in 1..(Len(achalls) - 1) |-> TRUE]],
               [kind |-> "responses",
                resp |-> [i \in 1..(Len(achalls) + 1) |-> TRUE]],
               [kind |-> "AuthorizationError", resp |-> <<>>],
               [kind |-> "Exception", resp |-> <<>>]}

Raises(o) == o.kind \in {"AuthorizationError", "Exception"}

\* Faulty variant: dv_auth.perform is called first.
PerformCallsDvFirst(co, do) ==
    (IF do.kind = "skipped" THEN <<>>
     ELSE <<[auth |-> "dv", achalls |-> dv_c, out |-> do]>>)
    \o (IF co.kind = "skipped" THEN <<>>
        ELSE <<[auth |-> "cont", achalls |-> cont_c, out |-> co]>>)

\* The perform calls of _solve_challenges, in order, co and do being what
\* cont_auth.perform and dv_auth.perform do ("skipped": not called).
PerformCalls(co, do) ==
    (IF co.kind = "skipped" THEN <<>>
     ELSE <<[auth |-> "cont", achalls |-> cont_c, out |-> co]>>)
    \o (IF do.kind = "skipped" THEN <<>>
        ELSE <<[auth |-> "dv", achalls |-> dv_c, out |-> do]>>)

\* Faulty variant: only cont_resp is measured.
LengthsDifferContOnly(co, do) == Len(co.resp) # Len(cont_c)

\* the two length assertions of _solve_challenges: TRUE when one fails
LengthsDiffer(co, do) ==
    Len(co.resp) # Len(cont_c) \/ Len(do.resp) # Len(dv_c)

SolveChallenges(co, do) ==
    /\ pc = "loop"
    /\ UNCHANGED <<polled, sleeps, last_poll>>
    /\ dv_c # <<>> \/ cont_c # <<>>
    /\ co \in PerformOutcomes(cont_c)
    /\ do \in PerformOutcomes(IF Raises(co) THEN <<>> ELSE dv_c)
    /\ performed' = performed
           \cup (IF co.kind = "skipped" THEN {} ELSE Range(cont_c))
           \cup (IF do.kind = "skipped" THEN {} ELSE Range(dv_c))
    /\ perform_log' = PerformCalls(co, do)
    /\ answer_log' = <<>>
    /\ IF co.kind = "AuthorizationError" \/ do.kind = "AuthorizationError"
       THEN /\ dv_c' = CleanupAll.dv_c
            /\ cont_c' = CleanupAll.cont_c
            /\ cleaned' = cleaned \cup CleanupAll.cleaned
            /\ UNCHANGED answered
            /\ last_cleanup' = [given |-> FALSE, achall_list |-> <<>>,
                                 calls |-> CleanupAll.calls]
            /\ outcome' = Raise("AuthorizationError", "perform")
            /\ pc' = "done"
            /\ UNCHANGED <<cont_resp, dv_resp>>
       ELSE IF Raises(co) \/ Raises(do)
       THEN /\ outcome' = Raise("Exception", "perform")
            /\ pc' = "done"
            /\ UNCHANGED <<dv_c, cont_c, cleaned, last_cleanup, answered, cont_resp, dv_resp>>
       ELSE IF LengthsDiffer(co, do)
       THEN /\ outcome' = Raise("AssertionError", "assert")
            /\ pc' = "done"
            /\ UNCHANGED <<dv_c, cont_c, cleaned, last_cleanup, answered, cont_resp, dv_resp>>
       ELSE /\ cont_resp' = co.resp
            /\ dv_resp' = do.resp
            /\ pc' = "respond"
            /\ UNCHANGED <<dv_c, cont_c, cleaned, last_cleanup, answered, outcome>>
    /\ UNCHANGED <<authzr, call, requests, domains, best_effort, idx, chall_update,
                   active_achalls, dom_to_check, comp_domains, to_visit,
                   rounds, result, timed_out, chall_failed>>

(***************************************************************************)
(* _respond: send the responses, poll, clean up what was sent.             *)
(***************************************************************************)
\* Faulty variant: every achall is sent, whatever its response.
_send_responses_All(achalls, resps) == achalls

\* _send_responses(achalls, resps, ...): the achalls whose response is truthy
_send_responses(achalls, resps) == SelectByFlag(achalls, resps)

\* Faulty variant: cont_c is sent before dv_c.
AnswerOrderContFirst ==
    _send_responses(cont_c, cont_resp) \o _send_responses(dv_c, dv_resp)

\* The achalls in the order _respond has them answered: dv_c, then cont_c.
AnswerOrder ==
    _send_responses(dv_c, dv_resp) \o _send_responses(cont_c, cont_resp)

\* Faulty variant: every outstanding achall is indexed, sent or not.
ChallUpdateAllOutstanding(sends) ==
    [d \in Domains |->
        LET OfDomain(a) == a.domain = d IN SelectSeq(dv_c \o cont_c, OfDomain)]

\* chall_update once every achall of sends is answered
ChallUpdate(sends) ==
    [d \in Domains |->
        LET OfDomain(a) == a.domain = d IN SelectSeq(sends, OfDomain)]

\* Every network.answer_challenge call succeeds; _poll_challenges starts.
Respond ==
    /\ pc = "respond"
    /\ LET sends == AnswerOrder
           cu    == ChallUpdate(sends)
       IN  /\ answer_log' = sends
           /\ answered' = answered \cup Range(sends)
           /\ active_achalls' = sends
           /\ chall_update' = cu
           /\ dom_to_check' = Keys(cu)
           /\ to_visit' = Keys(cu)
           /\ pc' = IF Keys(cu) # {} /\ 0 < max_rounds THEN "poll" ELSE "finally"
           /\ sleeps' = IF Keys(cu) # {} /\ 0 < max_rounds THEN 1 ELSE 0
    /\ polled' = {}
    /\ last_poll' = NoPoll
    /\ comp_domains' = {}
    /\ rounds' = 0
    /\ UNCHANGED <<authzr, dv_c, cont_c, call, requests, domains, best_effort, idx,
                   cont_resp, dv_resp, outcome, result, performed, perform_log, cleaned, last_cleanup,
                   timed_out, chall_failed>>

\* The k-th network.answer_challenge call raises: _send_responses is not
\* inside any try, the exception leaves get_authorizations as it is.
AnswerRaises(k) ==
    /\ pc = "respond"
    /\ UNCHANGED <<polled, sleeps, last_poll>>
    /\ k \in 1..Len(AnswerOrder)
    /\ answer_log' = SubSeq(AnswerOrder, 1, k)
    /\ answered' = answered \cup Range(SubSeq(AnswerOrder, 1, k - 1))
    /\ outcome' = Raise("Exception", "answer_challenge")
    /\ pc' = "done"
    /\ cont_resp' = <<>>
    /\ dv_resp' = <<>>
    /\ UNCHANGED <<authzr, dv_c, cont_c, call, requests, domains, best_effort, idx,
                   chall_update, active_achalls, dom_to_check, comp_domains,
                   to_visit, rounds, result, performed, perform_log, cleaned, last_cleanup, timed_out,
                   chall_failed>>

\* _get_chall_status: the status of the first challenge of the achall's
\* variant, "NotFound" standing for the AuthorizationError
_get_chall_status(az, achall) ==
    LET at == {i \in 1..Len(az.challs) : az.challs[i].typ = achall.typ}
    IN  IF at = {} THEN "NotFound"
        ELSE az.challs[CHOOSE i \in at : \A j \in at : i <= j].status

\* the achalls of a list whose looked-up status is st, in order
RECURSIVE WithStatus(_, _, _)
WithStatus(achalls, az, st) ==
    IF achalls = <<>> THEN <<>>
    ELSE (IF _get_chall_status(az, Head(achalls)) = st
          THEN <<Head(achalls)>> ELSE <<>>)
             \o WithStatus(Tail(achalls), az, st)

\* Faulty variant: a valid body does not complete the achalls.
_handle_check_BodyIgnored(az, achalls) ==
    IF \E i \in 1..Len(achalls) :
           _get_chall_status(az, achalls[i]) = "NotFound"
    THEN [kind |-> "AuthorizationError", completed |-> <<>>, failed |-> <<>>]
    ELSE [kind |-> "ok",
          completed |-> WithStatus(achalls, az, STATUS_VALID),
          failed |-> WithStatus(achalls, az, STATUS_INVALID)]

\* _handle_check(domain, achalls), az being what network.poll returned
_handle_check(az, achalls) ==
    IF az.status = STATUS_VALID
    THEN [kind |-> "ok", completed |-> achalls, failed |-> <<>>]
    ELSE IF \E i \in 1..Len(achalls) :
                _get_chall_status(az, achalls[i]) = "NotFound"
    THEN [kind |-> "AuthorizationError", completed |-> <<>>, failed |-> <<>>]
    ELSE [kind |-> "ok",
          completed |-> WithStatus(achalls, az, STATUS_VALID),
          failed |-> WithStatus(achalls, az, STATUS_INVALID)]

\* Faulty variant: the rounds are not limited.
EndOfCheck_NoLimit(d, comp, az) ==
    IF to_visit # {d}
    THEN /\ to_visit' = to_visit \ {d}
         /\ comp_domains' = comp
         /\ pc' = "poll"
         /\ timed_out' = timed_out \ {d}
         /\ UNCHANGED <<dom_to_check, rounds, sleeps>>
    ELSE LET left == dom_to_check \ comp
             more == left # {}
         IN  /\ dom_to_check' = left
             /\ comp_domains' = {}
             /\ rounds' = rounds + 1
             /\ to_visit' = IF more THEN left ELSE {}
             /\ sleeps' = IF more THEN sleeps + 1 ELSE sleeps
             /\ pc' = IF more THEN "poll" ELSE "finally"
             /\ timed_out' = timed_out \ {d}

\* The end of a pass of "for domain in dom_to_check": when the pass is over,
\* the completed domains leave dom_to_check, a round is counted and the
\* while condition is tested again.
EndOfCheck(d, comp, az) ==
    IF to_visit # {d}
    THEN /\ to_visit' = to_visit \ {d}
         /\ comp_domains' = comp
         /\ pc' = "poll"
         /\ timed_out' = timed_out \ {d}
         /\ UNCHANGED <<dom_to_check, rounds, sleeps>>
    ELSE LET left == dom_to_check \ comp
             more == left # {} /\ rounds + 1 < max_rounds
         IN  /\ dom_to_check' = left
             /\ comp_domains' = {}
             /\ rounds' = rounds + 1
             /\ to_visit' = IF more THEN left ELSE {}
             /\ sleeps' = IF more THEN sleeps + 1 ELSE sleeps
             /\ pc' = IF more THEN "poll" ELSE "finally"
             /\ timed_out' =
                    IF more THEN timed_out \ {d}
                    ELSE (timed_out \ {d}) \cup
                         {e \in left :
                             (IF e = d THEN az ELSE authzr[e]).status = "pending"}

\* Faulty variant: a failed challenge is tolerated whatever best_effort is.
PollVerdictAlwaysGiveUp(hc, n, be) ==
    IF Len(hc.completed) = n THEN "complete"
    ELSE IF hc.failed = <<>> THEN "keep"
    ELSE "give up"

\* What _poll_challenges does with the result of _handle_check for a domain
\* with n outstanding achalls: the domain is complete, its completed achalls
\* are dropped and it stays, it is given up (best effort), or the call fails.
PollVerdict(hc, n, be) ==
    IF Len(hc.completed) = n THEN "complete"
    ELSE IF hc.failed = <<>> THEN "keep"
    ELSE IF be THEN "give up"
    ELSE "raise"

\* One pass of the for loop of _poll_challenges: domain d is polled and the
\* server answers az.
PollDomain(d, az) ==
    /\ pc = "poll"
    /\ polled' = polled \cup {<<rounds, d>>}
    /\ last_poll' = [domain |-> d, authzr |-> az, achalls |-> chall_update[d]]
    /\ d \in to_visit
    /\ az \in PollResponses(authzr[d])
    /\ authzr' = [authzr EXCEPT ![d] = Stored(az)]
    /\ LET hc == _handle_check(az, chall_update[d])
           verdict == PollVerdict(hc, Len(chall_update[d]), best_effort)
       IN  IF hc.kind # "ok"
           THEN /\ outcome' = Raise(hc.kind, "Target challenge not found")
                /\ pc' = "finally"
                /\ timed_out' = timed_out \ {d}
                /\ UNCHANGED <<chall_update, dom_to_check, comp_domains,
                               to_visit, rounds, chall_failed, sleeps>>
           ELSE IF verdict = "complete"
           THEN /\ EndOfCheck(d, comp_domains \cup {d}, az)
                /\ UNCHANGED <<chall_update, outcome, chall_failed>>
           ELSE IF verdict = "keep"
           THEN /\ chall_update' =
                       [chall_update EXCEPT
                           ![d] = RemoveAll(chall_update[d], hc.completed)]
                /\ EndOfCheck(d, comp_domains, az)
                /\ UNCHANGED <<outcome, chall_failed>>
           ELSE IF verdict = "give up"
           THEN /\ chall_failed' = chall_failed \cup {d}
                /\ EndOfCheck(d, comp_domains \cup {d}, az)
                /\ UNCHANGED <<chall_update, outcome>>
           ELSE /\ chall_failed' = chall_failed \cup {d}
                /\ outcome' = [kind |-> "AuthorizationError",
                               msg |-> "Failed Authorization procedure",
                               dom |-> d]
                /\ pc' = "finally"
                /\ timed_out' = timed_out \ {d}
                /\ UNCHANGED <<chall_update, dom_to_check, comp_domains,
                               to_visit, rounds, sleeps>>
    /\ UNCHANGED <<dv_c, cont_c, call, requests, domains, best_effort, idx, cont_resp,
                   dv_resp, active_achalls, result, performed, perform_log, cleaned, last_cleanup, answered,
                   answer_log>>

\* network.poll raises.
PollRaises(d) ==
    /\ pc = "poll"
    /\ polled' = polled \cup {<<rounds, d>>}
    /\ last_poll' = NoPoll
    /\ UNCHANGED sleeps
    /\ d \in to_visit
    /\ outcome' = Raise("Exception", "poll")
    /\ pc' = "finally"
    /\ UNCHANGED <<authzr, dv_c, cont_c, call, requests, domains, best_effort, idx,
                   cont_resp, dv_resp, chall_update, active_achalls,
                   dom_to_check, comp_domains, to_visit, rounds, result,
                   performed, perform_log, cleaned, last_cleanup, answered, answer_log, timed_out, chall_failed>>

\* The finally clause of _respond: the achalls that were sent are cleaned
\* up, then the exception, if any, goes on; otherwise the while loop of
\* get_authorizations tests its condition again.
RespondFinally ==
    /\ pc = "finally"
    /\ polled' = {}
    /\ sleeps' = 0
    /\ last_poll' = NoPoll
    /\ LET c == CleanupList(active_achalls)
       IN  /\ dv_c' = c.dv_c
           /\ cont_c' = c.cont_c
           /\ cleaned' = cleaned \cup c.cleaned
           /\ UNCHANGED answered
           /\ last_cleanup' = [given |-> TRUE, achall_list |-> active_achalls,
                                calls |-> c.calls]
    /\ pc' = IF outcome = Running THEN "loop" ELSE "done"
    /\ cont_resp' = <<>>
    /\ dv_resp' = <<>>
    /\ chall_update' = [d \in Domains |-> <<>>]
    /\ active_achalls' = <<>>
    /\ dom_to_check' = {}
    /\ comp_domains' = {}
    /\ to_visit' = {}
    /\ rounds' = 0
    /\ perform_log' = <<>>
    /\ UNCHANGED <<authzr, call, requests, domains, best_effort, idx, outcome, result,
                   performed, answer_log, timed_out, chall_failed>>

(***************************************************************************)
(* The end of get_authorizations.                                          *)
(***************************************************************************)
\* Faulty variant: a pending authorization passes as decided.
verify_authzr_complete_PendingPasses ==
    \E d \in AuthzrKeys : authzr[d].status \notin {"valid", "invalid", "pending"}

\* verify_authzr_complete: TRUE when it raises
verify_authzr_complete ==
    \E d \in AuthzrKeys :
        /\ authzr[d].status # STATUS_VALID
        /\ authzr[d].status # STATUS_INVALID

\* Faulty variant: the list is not filtered by status.
AllAuthzrs ==
    {[domain |-> d, status |-> authzr[d].status] : d \in AuthzrKeys}

\* the list get_authorizations returns
ValidAuthzrs ==
    {[domain |-> d, status |-> authzr[d].status] :
        d \in {e \in AuthzrKeys : authzr[e].status = STATUS_VALID}}

ReturnAuthorizations ==
    /\ pc = "loop"
    /\ UNCHANGED <<polled, sleeps, last_poll>>
    /\ dv_c = <<>>
    /\ cont_c = <<>>
    /\ pc' = "done"
    /\ IF verify_authzr_complete
       THEN /\ outcome' = Raise("AuthorizationError", "Incomplete authorizations")
            /\ result' = {}
       ELSE /\ outcome' = Raise("returned", "")
            /\ result' = ValidAuthzrs
    /\ UNCHANGED <<authzr, dv_c, cont_c, call, requests, domains, best_effort, idx,
                   cont_resp, dv_resp, chall_update, active_achalls,
                   dom_to_check, comp_domains, to_visit, rounds, performed, perform_log,
                   cleaned, last_cleanup, answered, answer_log, timed_out, chall_failed>>

\* gen_challenge_path not being run on its own
NoPlanIn == [challbs |-> <<>>, preferences |-> <<>>, combinations |-> <<>>]
NoPlanOut == [kind |-> "none", path |-> <<>>]

\* an account that is not registered, and the regr fields the client reads
NoRegr ==
    [set |-> FALSE, terms_of_service |-> FALSE, agreed |-> FALSE,
     recovery_token |-> FALSE]
NotIssued == [called |-> FALSE, authzr |-> {}]
ClientRunning == [kind |-> "running", msg |-> ""]

\* an attribute that is None, or a string
Absent == [some |-> FALSE, str |-> ""]
Some(str) == [some |-> TRUE, str |-> str]

\* no Registration body, no RegistrationResource, no Account in hand
NoBody == [set |-> FALSE, recovery_token |-> Absent]
NoResource ==
    [set |-> FALSE, uri |-> "", new_authzr_uri |-> "",
     terms_of_service |-> Absent, body |-> NoBody]
NoAccount == [key |-> <<>>, email |-> <<>>, phone |-> Absent, regr |-> NoResource]
NoAccountCall == [op |-> "", arg |-> <<>>, kind |-> "", msg |-> ""]
NoErrIn == [op |-> "", typ |-> <<>>]
NoErrOut == [kind |-> "", typ |-> <<>>, msg |-> "", wire |-> <<>>]

\* the key file the caller of Account(...) brings along
CallerKey == <<"k">>

\* no account operation has been made
StoreIdle ==
    /\ acc = NoAccount
    /\ accounts_dir = <<>>
    /\ account_keys_dir = {CallerKey}
    /\ acc_made = 0
    /\ saves = 0
    /\ acc_saved = FALSE
    /\ acc_call = NoAccountCall
    /\ acc_loaded = NoAccount

WireIdle ==
    /\ err_in = NoErrIn
    /\ err_out = NoErrOut

\* no perform or cleanup call of the nginx configurator yet
NoNginxCall == [op |-> "", achalls |-> <<>>, kind |-> "", responses |-> <<>>,
                dvsni_performs |-> 0, restarts |-> 0, reverts |-> 0]

\* NginxConfigurator.__init__, on a configuration with an http block
NginxIdle ==
    /\ _chall_out = 0
    /\ http_block = TRUE
    /\ nginx_calls = 0
    /\ nginx_call = NoNginxCall
    /\ unfinished = {}

PlanIdle ==
    /\ plan_in = NoPlanIn
    /\ plan_out = NoPlanOut

\* no client around the handler: the handler is called directly
ClientIdle ==
    /\ auth_handler_set = TRUE
    /\ config_tos = FALSE
    /\ account = [regr |-> NoRegr]
    /\ disk = [regr |-> NoRegr]
    /\ c_pc = "idle"
    /\ enroll = FALSE
    /\ registers = 0
    /\ client_log = <<>>
    /\ reports = <<>>
    /\ issued_with = NotIssued
    /\ client_outcome = ClientRunning

\* A handler on its own: nothing outside it moves.
HandlerInit ==
    /\ Init
    /\ PlanIdle
    /\ ClientIdle
    /\ StoreIdle
    /\ WireIdle
    /\ NginxIdle

Next ==
    \/ /\ \E doms \in DomainLists, be \in BOOLEAN : Call(doms, be)
       /\ UNCHANGED outside_vars
    \/ /\ \E offer \in AuthzOffers : RequestDomainChallenges(offer)
       /\ UNCHANGED outside_vars
    \/ /\ ChooseChallenges
       /\ UNCHANGED outside_vars
    \/ /\ \E co \in PerformOutcomes(cont_c) :
             \E do \in PerformOutcomes(IF Raises(co) THEN <<>> ELSE dv_c) :
                 SolveChallenges(co, do)
       /\ UNCHANGED outside_vars
    \/ /\ Respond
       /\ UNCHANGED outside_vars
    \/ /\ \E k \in 1..(Len(dv_c) + Len(cont_c)) : AnswerRaises(k)
       /\ UNCHANGED outside_vars
    \/ /\ \E d \in to_visit :
             \E az \in PollResponses(authzr[d]) : PollDomain(d, az)
       /\ UNCHANGED outside_vars
    \/ /\ \E d \in to_visit : PollRaises(d)
       /\ UNCHANGED outside_vars
    \/ /\ RespondFinally
       /\ UNCHANGED outside_vars
    \/ /\ ReturnAuthorizations
       /\ UNCHANGED outside_vars

Spec == HandlerInit /\ [][Next]_vars

(***************************************************************************)
(* Properties of get_authorizations.                                       *)
(***************************************************************************)
Done == pc = "done"
Returned == pc = "done" /\ outcome.kind = "returned"
ResultDomains == {r.domain : r \in result}

\* the call got as far as verify_authzr_complete
ReachedVerify ==
    pc = "done" /\ outcome.msg \in {"", "Incomplete authorizations"}

\* C1: whenever get_authorizations returns normally, every authorization
\* resource of the returned list has body status valid, and valid is also the
\* status the handler last observed for its domain.
ReturnsOnlyValid ==
    Returned =>
        \A r \in result :
            r.status = STATUS_VALID /\ authzr[r.domain].status = STATUS_VALID

\* C1 witness: a call returned a valid authorization and left out one that
\* ended invalid.
ReturnedSomeLeftOutInvalid ==
    /\ Returned
    /\ result # {}
    /\ \E d \in AuthzrKeys : authzr[d].status = STATUS_INVALID

\* C2: with best_effort false, a call that returns normally returns a valid
\* authorization for every requested domain.
StrictCallReturnsAllDomains ==
    (Returned /\ ~best_effort) =>
        \A d \in Range(domains) :
            \E r \in result : r.domain = d /\ r.status = STATUS_VALID

\* C3: when perform raises the AuthorizationError the handler catches, no
\* achall remains in dv_c or cont_c once the exception has left the call.
PerformErrorLeavesNoAchall ==
    (Done /\ outcome = Raise("AuthorizationError", "perform")) =>
        (dv_c = <<>> /\ cont_c = <<>>)

\* C4: whenever get_authorizations raises AuthorizationError, dv_c and cont_c
\* are empty when the error reaches the caller.
AuthorizationErrorLeavesNoAchall ==
    (Done /\ outcome.kind = "AuthorizationError") =>
        (dv_c = <<>> /\ cont_c = <<>>)

\* the exit paths C5 lists: normal return, AuthorizationError, an exception
\* from network.answer_challenge or network.poll, a failed length assertion
\* (a poll timeout ends in one of the first two)
ListedExit ==
    \/ outcome.kind \in {"returned", "AuthorizationError", "AssertionError"}
    \/ outcome.msg \in {"answer_challenge", "poll"}

\* C5: on each of these exit paths every achall that was passed to an
\* authenticator's perform has been passed to its cleanup.
PerformedAreCleanedUp ==
    (Done /\ ListedExit) => performed \subseteq cleaned

\* C6 as stated: when polling hit max_rounds with a domain's authorization
\* still pending (and no later poll of the call touched it) and the call got
\* to its end, the call returned normally and the domain is not in the
\* returned list.
TimedOutCallReturns ==
    (ReachedVerify /\ timed_out # {}) =>
        (outcome.kind = "returned" /\ timed_out \cap ResultDomains = {})

\* C6 amended: when polling hit max_rounds with a domain's authorization
\* still pending and no later poll of the call changed that, the call does
\* not return: unless another failure ends it first, verify_authzr_complete
\* raises AuthorizationError("Incomplete authorizations"), with best_effort
\* set or not, and no list is returned.
TimedOutCallRaisesIncomplete ==
    (Done /\ timed_out # {}) =>
        /\ outcome.kind # "returned"
        /\ result = {}
        /\ ReachedVerify =>
               outcome = Raise("AuthorizationError", "Incomplete authorizations")

\* C6 witness: a best-effort call whose polling timed out on a pending
\* authorization ended with "Incomplete authorizations".
BestEffortTimedOutRaised ==
    /\ Done
    /\ best_effort
    /\ timed_out # {}
    /\ outcome = Raise("AuthorizationError", "Incomplete authorizations")

\* the terminal statuses of the glossary
TerminalStatuses == {"valid", "invalid", "revoked"}

\* C7: verify_authzr_complete raises if and only if some authorization of
\* the handler's map has a status that is not terminal.
VerifyRaisesIffNotTerminal ==
    ReachedVerify =>
        ((outcome.kind = "AuthorizationError")
            <=> (\E d \in AuthzrKeys : authzr[d].status \notin TerminalStatuses))

\* C8: while a call is active (its authorizations requested, the call not
\* ended) the map holds an entry for exactly the domains requested in the
\* call, and the returned list holds authorizations of those domains only.
MapHoldsRequestedDomainsOnly ==
    /\ pc \in {"choose", "loop", "respond", "poll", "finally"} =>
           AuthzrKeys = Range(domains)
    /\ Returned => ResultDomains \subseteq Range(domains)

\* the authorizations that stand in the way of a normal return
Undecided == {d \in AuthzrKeys : authzr[d].status \notin {"valid", "invalid"}}

\* C9 as stated, best-effort part: a best-effort call in which a domain was
\* given up for a failed challenge, and in which every other authorization is
\* valid, returns normally once it gets to its end.
BestEffortFailureStillReturns ==
    (/\ ReachedVerify
     /\ best_effort
     /\ chall_failed # {}
     /\ \A d \in AuthzrKeys \ chall_failed : authzr[d].status = STATUS_VALID)
        => outcome.kind = "returned"

\* C9 amended, per state: without best_effort a failed challenge ends the
\* call with AuthorizationError("Failed Authorization procedure for <domain>");
\* with best_effort the failure raises nothing, and the call returns the valid
\* authorizations without the failed domain only if no authorization is left
\* undecided: if the failed domain's authorization body is neither valid nor
\* invalid, the call raises AuthorizationError("Incomplete authorizations").
FailedChallengeOutcome ==
    /\ (~best_effort /\ chall_failed # {}) =>
           /\ pc \in {"finally", "done"}
           /\ outcome.kind = "AuthorizationError"
           /\ outcome.msg = "Failed Authorization procedure"
           /\ outcome.dom \in chall_failed
    /\ (best_effort /\ chall_failed # {}) =>
           outcome.msg # "Failed Authorization procedure"
    /\ (Returned /\ best_effort) =>
           /\ Undecided = {}
           /\ ResultDomains = {d \in AuthzrKeys : authzr[d].status = STATUS_VALID}
           /\ \A d \in chall_failed :
                  authzr[d].status # STATUS_VALID => d \notin ResultDomains
    /\ (ReachedVerify /\ best_effort /\ chall_failed \cap Undecided # {}) =>
           outcome = Raise("AuthorizationError", "Incomplete authorizations")

\* C9 amended, per step: the pass of the poll loop that finds the failed
\* challenge of a best-effort call treats the domain as complete (it is not
\* visited again and leaves dom_to_check with the round) and keeps every
\* other domain that is not complete: one not yet visited in the round stays
\* to be visited, and all of them stay in dom_to_check while polling goes on.
FailedChallengeStep ==
    \A d \in chall_failed' \ chall_failed :
        best_effort =>
            /\ outcome' = Running
            /\ d \notin to_visit'
            /\ pc' = "poll" => (d \in comp_domains' \/ d \notin dom_to_check')
            /\ to_visit # {d} => to_visit' = to_visit \ {d}
            /\ pc' = "poll" =>
                   (dom_to_check \ (comp_domains \cup {d})) \subseteq dom_to_check'

\* C9 amended.
FailedChallengeHandling == []FailedChallengeOutcome /\ [][FailedChallengeStep]_vars

\* C9 witness: a best-effort call gave up a domain for a failed challenge and
\* returned the other domain's valid authorization.
BestEffortReturnedTheOther ==
    /\ Returned
    /\ best_effort
    /\ chall_failed # {}
    /\ result # {}
    /\ chall_failed \cap ResultDomains = {}

\* C10 as stated: in an answer round no DV-family achall is answered before
\* a continuity-family achall.
ContAnsweredBeforeDv ==
    \A i, j \in 1..Len(answer_log) :
        i < j => ~(Family(answer_log[i].typ) = "dv"
                      /\ Family(answer_log[j].typ) = "cont")

\* C10 amended: in every answer round all network.answer_challenge calls for
\* DV-family achalls occur before any call for a continuity-family achall.
DvAnsweredBeforeCont ==
    \A i, j \in 1..Len(answer_log) :
        i < j => ~(Family(answer_log[i].typ) = "cont"
                      /\ Family(answer_log[j].typ) = "dv")

\* C10 witness: a round answered achalls of both families.
BothFamiliesAnswered ==
    \E i, j \in 1..Len(answer_log) :
        Family(answer_log[i].typ) = "dv" /\ Family(answer_log[j].typ) = "cont"

(***************************************************************************)
(* Properties of _solve_challenges and _respond.                           *)
(***************************************************************************)
\* C11, per state: the perform calls of a round are at most one call of
\* cont_auth followed by at most one call of dv_auth, each with a nonempty
\* list of achalls of its own family.
PerformOrder ==
    /\ Len(perform_log) <= 2
    /\ \A i, j \in 1..Len(perform_log) :
           i < j => (perform_log[i].auth = "cont" /\ perform_log[j].auth = "dv")
    /\ \A i \in 1..Len(perform_log) :
           /\ perform_log[i].achalls # <<>>
           /\ \A a \in Range(perform_log[i].achalls) :
                  Family(a.typ) = perform_log[i].auth

\* C11, per step: the list a perform call receives is exactly the
\* outstanding list of its family (cont_c, dv_c) as the round found it, and
\* a round that gets past perform has called it for each nonempty list.
PerformStep ==
    (perform_log' # perform_log /\ perform_log' # <<>>) =>
        /\ \A i \in 1..Len(perform_log') :
               perform_log'[i].achalls =
                   (IF perform_log'[i].auth = "cont" THEN cont_c ELSE dv_c)
        /\ pc' = "respond" =>
               /\ cont_c # <<>> => \E i \in 1..Len(perform_log') :
                                       perform_log'[i].auth = "cont"
               /\ dv_c # <<>> => \E i \in 1..Len(perform_log') :
                                     perform_log'[i].auth = "dv"

\* C11: in every round cont_auth.perform is invoked before dv_auth.perform,
\* each at most once, each only when its outstanding list is nonempty and
\* with exactly that list as argument.
PerformDiscipline == []PerformOrder /\ [][PerformStep]_vars

\* C11 witness: a round called both authenticators.
BothAuthenticatorsPerformed == Len(perform_log) = 2

\* the domains a network.answer_challenge call of the round was made for
AnsweredDomains == {answer_log[i].domain : i \in 1..Len(answer_log)}

\* C12, per state: while polling goes on, every domain that is or will be
\* polled had a response sent for one of its challenges in this round.
PolledWereAnswered ==
    pc = "poll" =>
        (to_visit \subseteq dom_to_check /\ dom_to_check \subseteq AnsweredDomains)

\* C12, per step: the handler observes a new authorization for a domain only
\* by a poll that follows an answer for that domain in the same round.
PollStep ==
    pc = "poll" =>
        \A d \in Domains : authzr'[d] # authzr[d] => d \in AnsweredDomains

\* C12: network.poll for a domain is only issued after a
\* network.answer_challenge for a challenge of that domain in the same round;
\* a domain for which no response was sent in a round is not polled in it.
PollOnlyAfterAnswer == []PolledWereAnswered /\ [][PollStep]_vars

\* C12 witness: polling goes on while a requested domain with an outstanding
\* achall had no response sent in the round.
PollingWithUnansweredDomain ==
    /\ pc = "poll"
    /\ \E a \in Range(dv_c) \cup Range(cont_c) : a.domain \notin AnsweredDomains

\* the outstanding achalls whose response of this round is falsy / truthy
FalsyAchalls ==
    {dv_c[i] : i \in {j \in 1..Len(dv_c) : j <= Len(dv_resp) /\ ~dv_resp[j]}}
    \cup {cont_c[i] :
             i \in {j \in 1..Len(cont_c) : j <= Len(cont_resp) /\ ~cont_resp[j]}}
TruthyAchalls ==
    {dv_c[i] : i \in {j \in 1..Len(dv_c) : j <= Len(dv_resp) /\ dv_resp[j]}}
    \cup {cont_c[i] :
             i \in {j \in 1..Len(cont_c) : j <= Len(cont_resp) /\ cont_resp[j]}}

\* C13, per state: once the responses of a round are sent, the achalls
\* answered and the achalls recorded as active are achalls whose response at
\* the same position is truthy; one whose response is falsy was not
\* answered, is not active and has not been cleaned up.
SentOnlyTruthy ==
    pc \in {"poll", "finally"} =>
        /\ Range(answer_log) \subseteq TruthyAchalls
        /\ Range(active_achalls) \subseteq TruthyAchalls
        /\ FalsyAchalls \cap (Range(answer_log) \cup Range(active_achalls)) = {}
        /\ FalsyAchalls \cap cleaned = {}

\* C13, per step: the cleanup that ends the round leaves every achall whose
\* response was falsy in dv_c / cont_c, not cleaned up.
FalsyStays ==
    pc = "finally" =>
        /\ FalsyAchalls \subseteq Range(dv_c') \cup Range(cont_c')
        /\ FalsyAchalls \cap cleaned' = {}

\* C13: network.answer_challenge is called for an achall only when the
\* response at the same position is truthy; an achall whose response is
\* falsy is not sent, not recorded as active, not cleaned up in that round
\* and stays in dv_c / cont_c for the next round.
FalsyResponseHandling == []SentOnlyTruthy /\ [][FalsyStays]_vars

\* C13 witness: a round sent a response for one achall and none for another,
\* and is about to clean up.
RoundWithFalsyAndTruthy ==
    /\ pc = "finally"
    /\ FalsyAchalls # {}
    /\ answer_log # <<>>

\* a perform call of the round returned a sequence of the wrong length
WrongLength ==
    \E i \in 1..Len(perform_log) :
        /\ perform_log[i].out.kind = "responses"
        /\ Len(perform_log[i].out.resp) # Len(perform_log[i].achalls)
PerformRaised == \E i \in 1..Len(perform_log) : Raises(perform_log[i].out)

\* C14 as stated: when a perform call returns a sequence of the wrong
\* length, the call fails on the length assertion with no answer sent.
WrongLengthFailsAssertion ==
    WrongLength =>
        /\ pc = "done"
        /\ outcome = Raise("AssertionError", "assert")
        /\ answer_log = <<>>

\* C14 amended: when a perform call returns a sequence of the wrong length,
\* the call fails before any network.answer_challenge call of the round: on
\* the length assertion, unless dv_auth.perform, which is still called after
\* cont_auth.perform returned, raises, and then with that exception.
\* Responses that get to be sent are as many as the achalls and are paired
\* with them position by position.
WrongLengthStopsRound ==
    /\ WrongLength =>
           /\ pc = "done"
           /\ answer_log = <<>>
           /\ ~PerformRaised => outcome = Raise("AssertionError", "assert")
           /\ PerformRaised =>
                  (outcome.msg = "perform"
                      /\ outcome.kind \in {"AuthorizationError", "Exception"})
    /\ pc \in {"respond", "poll", "finally"} =>
           (Len(cont_resp) = Len(cont_c) /\ Len(dv_resp) = Len(dv_c))
    /\ pc \in {"poll", "finally"} =>
           answer_log = SelectByFlag(dv_c, dv_resp)
                            \o SelectByFlag(cont_c, cont_resp)

\* C14 witness: a call failed on the length assertion after a perform call
\* returned one response too many.
AssertionFailedOnLongResponse ==
    /\ outcome = Raise("AssertionError", "assert")
    /\ \E i \in 1..Len(perform_log) :
           /\ perform_log[i].out.kind = "responses"
           /\ Len(perform_log[i].out.resp) > Len(perform_log[i].achalls)

(***************************************************************************)
(* gen_challenge_path on its own: every offer, preference list and list of *)
(* combinations within the bounds.                                         *)
(***************************************************************************)
PlanVariants == {"DVSNI", "SimpleHTTP", "RecoveryToken"}

SeqsUpTo(S, n) == UNION {[1..k -> S] : k \in 0..n}

\* the challenges of an authorization: at least one
PlanChallbs ==
    {c \in SeqsUpTo([typ : PlanVariants], MaxOffered) : c # <<>>}

\* get_chall_pref lists: each variant at most once
PlanPreferences ==
    {p \in SeqsUpTo(PlanVariants, MaxPreferences) :
        Len(p) = Cardinality(Range(p))}

\* a combination over n challenges: a set of indices 0 .. n-1, listed in
\* increasing order; the empty one included
PlanCombos(n) ==
    {c \in SeqsUpTo(0..(n - 1), n) : \A i, j \in 1..Len(c) : i < j => c[i] < c[j]}

\* the indices of a combination are indices of the offered challenges
PathInit ==
    /\ Init
    /\ ClientIdle
    /\ StoreIdle
    /\ WireIdle
    /\ NginxIdle
    /\ \E c \in PlanChallbs, p \in PlanPreferences :
           \E k \in SeqsUpTo(PlanCombos(Len(c)), MaxCombinations) :
               plan_in = [challbs |-> c, preferences |-> p, combinations |-> k]
    /\ plan_out = NoPlanOut

\* gen_challenge_path with combinations: _find_smart_path
FindSmartPath ==
    /\ plan_out = NoPlanOut
    /\ plan_in.combinations # <<>>
    /\ plan_out' = gen_challenge_path(plan_in.challbs, plan_in.preferences,
                                      plan_in.combinations)
    /\ UNCHANGED plan_in

\* gen_challenge_path without combinations: _find_dumb_path
FindDumbPath ==
    /\ plan_out = NoPlanOut
    /\ plan_in.combinations = <<>>
    /\ plan_out' = gen_challenge_path(plan_in.challbs, plan_in.preferences,
                                      plan_in.combinations)
    /\ UNCHANGED plan_in

handler_vars == <<authzr, dv_c, cont_c, pc, call, requests, domains, best_effort,
                  idx, cont_resp, dv_resp, chall_update, active_achalls,
                  dom_to_check, comp_domains, to_visit, rounds, outcome, result,
                  performed, perform_log, cleaned, last_cleanup, answered, answer_log, timed_out,
                  chall_failed, polled, sleeps, last_poll>>

PathNext ==
    \/ /\ FindSmartPath
       /\ UNCHANGED <<handler_vars, client_vars, store_vars, wire_vars, nginx_vars>>
    \/ /\ FindDumbPath
       /\ UNCHANGED <<handler_vars, client_vars, store_vars, wire_vars, nginx_vars>>

SpecPath == PathInit /\ [][PathNext]_vars

(***************************************************************************)
(* Properties of gen_challenge_path.                                       *)
(***************************************************************************)
Planned == plan_out # NoPlanOut
WithCombinations == plan_in.combinations # <<>>

\* the rank of a variant: its 0-based position in the preferences, and for a
\* variant that is not there max_cost, the sum of all ranks plus one
PlanMaxCost ==
    (Len(plan_in.preferences) * (Len(plan_in.preferences) - 1)) \div 2 + 1
PlanRank(typ) ==
    IF \E i \in 1..Len(plan_in.preferences) : plan_in.preferences[i] = typ
    THEN (CHOOSE i \in 1..Len(plan_in.preferences) :
              plan_in.preferences[i] = typ) - 1
    ELSE PlanMaxCost

\* the summed ranks of the k-th combination
RECURSIVE RankSum(_)
RankSum(combo) ==
    IF combo = <<>> THEN 0
    ELSE PlanRank(plan_in.challbs[Head(combo) + 1].typ) + RankSum(Tail(combo))
PlanCost(k) == RankSum(plan_in.combinations[k])

\* C15: with combinations present, a path gen_challenge_path returns is one
\* of the server's combinations, of cost below max_cost, no combination
\* costs less, and every combination before it in the server's order costs
\* strictly more.
ReturnsFirstLeastCostCombination ==
    (Planned /\ WithCombinations /\ plan_out.kind = "ok") =>
        \E k \in 1..Len(plan_in.combinations) :
            /\ plan_out.path = plan_in.combinations[k]
            /\ PlanCost(k) < PlanMaxCost
            /\ \A j \in 1..Len(plan_in.combinations) :
                   /\ PlanCost(k) <= PlanCost(j)
                   /\ j < k => PlanCost(k) < PlanCost(j)

\* C15 witness: two different combinations of equal cost, the first one
\* returned.
TieReturnedFirst ==
    /\ Planned
    /\ plan_out.kind = "ok"
    /\ Len(plan_in.combinations) = 2
    /\ plan_in.combinations[1] # plan_in.combinations[2]
    /\ PlanCost(1) = PlanCost(2)
    /\ plan_out.path = plan_in.combinations[1]

\* C16: with combinations present, gen_challenge_path raises
\* AuthorizationError if and only if no combination has a cost strictly
\* below max_cost, and a returned combination holds no variant that is
\* absent from the preferences.
RaisesIffNoCombinationBelowMaxCost ==
    (Planned /\ WithCombinations) =>
        /\ (plan_out.kind = "AuthorizationError")
               <=> (\A k \in 1..Len(plan_in.combinations) :
                        PlanCost(k) >= PlanMaxCost)
        /\ plan_out.kind = "ok" =>
               \A i \in 1..Len(plan_out.path) :
                   plan_in.challbs[plan_out.path[i] + 1].typ
                       \in Range(plan_in.preferences)

\* two variants exclude each other: they differ and one configured group
\* holds both
Exclusive(typ1, typ2) ==
    /\ typ1 # typ2
    /\ \E group \in EXCLUSIVE_CHALLENGES : typ1 \in group /\ typ2 \in group

\* C17: without combinations, the path gen_challenge_path returns holds no
\* two challenges that exclude each other; what the planner takes for
\* exclusive is: of different variants, both in one configured group.
DumbPathHasNoExclusivePair ==
    /\ \A typ1, typ2 \in PlanVariants :
           mutually_exclusive(typ1, typ2, EXCLUSIVE_CHALLENGES, TRUE)
               <=> ~Exclusive(typ1, typ2)
    /\ (Planned /\ ~WithCombinations /\ plan_out.kind = "ok") =>
           \A i, j \in 1..Len(plan_out.path) :
               i # j =>
                   /\ plan_out.path[i] # plan_out.path[j]
                   /\ ~Exclusive(plan_in.challbs[plan_out.path[i] + 1].typ,
                                 plan_in.challbs[plan_out.path[j] + 1].typ)

\* C17 witness: DVSNI and SimpleHTTP are both offered and both preferred, and
\* the path holds one challenge.
ExclusiveOfferPlannedOnce ==
    /\ Planned
    /\ ~WithCombinations
    /\ {"DVSNI", "SimpleHTTP"} \subseteq Range(plan_in.preferences)
    /\ {"DVSNI", "SimpleHTTP"} \subseteq {c.typ : c \in Range(plan_in.challbs)}
    /\ Len(plan_out.path) = 1

\* the messages of the two client errors at the head of obtain_certificate
NoAuthenticatorMsg ==
    "Unable to obtain certificate because authenticator is not set."

RegisterFirstMsg == "Please register with the ACME server first."

(***************************************************************************)
(* The client: register and obtain_certificate, the latter driving the     *)
(* handler above.                                                          *)
(***************************************************************************)
ClientRaise(kind, msg) == [kind |-> kind, msg |-> msg]

\* What network.register_from_account may do: raise, or return the account
\* with a registration resource, which has terms of service or none and a
\* recovery token or none.
RegisterOutcomes ==
    {[raises |-> TRUE, regr |-> NoRegr]}
    \cup {[raises |-> FALSE,
           regr |-> [set |-> TRUE, terms_of_service |-> t, agreed |-> FALSE,
                     recovery_token |-> k]] : t, k \in BOOLEAN}

\* Faulty variant: the terms always count as agreed.
AgreeAlways(answer) == TRUE

\* register's "agree": the user's answer unless config.tos pre-agrees
Agree(answer) == IF ~config_tos THEN answer ELSE TRUE

\* Faulty variant: the recovery-token report comes first.
ReportNewAccount_HighFirst(r) ==
    IF r.recovery_token
    THEN [reports |-> <<"high", "medium">>, kind |-> "returned", msg |-> ""]
    ELSE [reports |-> <<"high">>, kind |-> "AssertionError",
          msg |-> "recovery_token"]

\* _report_new_account for an account with registration r: the reports
\* emitted, and whether the assertion on the recovery token fails
ReportNewAccount(r) ==
    IF r.recovery_token
    THEN [reports |-> <<"medium", "high">>, kind |-> "returned", msg |-> ""]
    ELSE [reports |-> <<"medium">>, kind |-> "AssertionError",
          msg |-> "recovery_token"]

\* account.save() and _report_new_account(), the end of register
SaveAndReport(r, log, save_raises) ==
    IF save_raises
    THEN [account |-> [regr |-> r], disk |-> disk, log |-> Append(log, "save"),
          reports |-> <<>>, outcome |-> ClientRaise("Exception", "save")]
    ELSE [account |-> [regr |-> r], disk |-> [regr |-> r],
          log |-> Append(log, "save") \o
                  [i \in 1..Len(ReportNewAccount(r).reports) |-> "add_message"],
          reports |-> ReportNewAccount(r).reports,
          outcome |-> ClientRaise(ReportNewAccount(r).kind,
                                  ReportNewAccount(r).msg)]

\* Client.register as a whole: reg is what register_from_account does,
\* answer the user's answer to the prompt, tos_raises and save_raises whether
\* network.agree_to_tos and account.save raise.
register(reg, answer, tos_raises, save_raises) ==
    LET log1 == <<"register_from_account">>
        log2 == IF ~config_tos
                THEN Append(log1, IF answer THEN "yesno: Agree" ELSE "yesno: Cancel")
                ELSE log1
    IN  IF reg.raises
        THEN [account |-> account, disk |-> disk, log |-> log1, reports |-> <<>>,
              outcome |-> ClientRaise("Exception", "register_from_account")]
        ELSE IF ~reg.regr.terms_of_service
        THEN SaveAndReport(reg.regr, log1, save_raises)
        ELSE IF ~Agree(answer)
        THEN [account |-> [regr |-> reg.regr], disk |-> disk, log |-> log2,
              reports |-> <<>>,
              outcome |-> ClientRaise("LetsEncryptClientError", "Must agree to TOS")]
        ELSE IF tos_raises
        THEN [account |-> [regr |-> reg.regr], disk |-> disk,
              log |-> Append(log2, "agree_to_tos"), reports |-> <<>>,
              outcome |-> ClientRaise("Exception", "agree_to_tos")]
        ELSE SaveAndReport([reg.regr EXCEPT !.agreed = TRUE],
                           Append(log2, "agree_to_tos"), save_raises)

Register(reg, answer, tos_raises, save_raises) ==
    /\ c_pc = "idle"
    /\ registers < MaxRegisters
    /\ registers' = registers + 1
    /\ LET r == register(reg, answer, tos_raises, save_raises)
       IN  /\ account' = r.account
           /\ disk' = r.disk
           /\ client_log' = r.log
           /\ reports' = r.reports
           /\ client_outcome' = r.outcome
    /\ issued_with' = NotIssued
    /\ UNCHANGED <<auth_handler_set, config_tos, c_pc, enroll>>

\* Faulty variant: the registration is not looked at.
obtain_certificate_check_NoRegr ==
    IF ~auth_handler_set THEN NoAuthenticatorMsg ELSE "ok"

\* the two requirements at the head of obtain_certificate
obtain_certificate_check ==
    IF ~auth_handler_set THEN NoAuthenticatorMsg
    ELSE IF ~account.regr.set THEN RegisterFirstMsg
    ELSE "ok"

\* obtain_certificate(domains) is refused at its head; called through
\* obtain_and_enroll_certificate (via) its exception goes on to the caller.
ObtainRefused(via) ==
    /\ c_pc = "idle"
    /\ obtain_certificate_check # "ok"
    /\ enroll' = via
    /\ client_outcome' =
           ClientRaise("LetsEncryptClientError", obtain_certificate_check)
    /\ client_log' = <<>>
    /\ reports' = <<>>
    /\ issued_with' = NotIssued
    /\ UNCHANGED <<auth_handler_set, config_tos, account, disk, c_pc, registers>>

\* obtain_certificate(domains) calls get_authorizations(domains), with the
\* default best_effort.  obtain_and_enroll_certificate (via) starts with
\* obtain_certificate(domains, csr).
ObtainCertificate(doms, via) ==
    /\ c_pc = "idle"
    /\ obtain_certificate_check = "ok"
    /\ call < MaxObtains
    /\ Call(doms, FALSE)
    /\ c_pc' = "authz"
    /\ enroll' = via
    /\ client_outcome' = ClientRunning
    /\ client_log' = <<"get_authorizations">>
    /\ reports' = <<>>
    /\ issued_with' = NotIssued
    /\ UNCHANGED <<auth_handler_set, config_tos, account, disk, registers>>

\* Faulty variant: the client goes on whatever get_authorizations did.
GotAuthorizationsAlways == pc = "done"

\* get_authorizations has returned its list to obtain_certificate
GotAuthorizations == pc = "done" /\ outcome.kind = "returned"

\* An exception of get_authorizations leaves obtain_certificate.
ObtainRaises ==
    /\ c_pc = "authz"
    /\ pc = "done"
    /\ ~GotAuthorizations
    /\ c_pc' = "idle"
    /\ client_outcome' = ClientRaise(outcome.kind, outcome.msg)
    /\ UNCHANGED <<auth_handler_set, config_tos, account, disk, registers,
                   client_log, reports, issued_with, enroll>>

\* How the rest of obtain_certificate may go: key or CSR creation raises,
\* request_issuance raises, the chain is fetched (or that raises), or there is
\* no chain to fetch.
IssuanceOutcomes ==
    {"init_save_key raises", "init_save_csr raises", "request_issuance raises",
     "fetch_chain raises", "chain", "no chain"}

\* the calls of the rest of obtain_certificate, in order, for outcome o
IssuanceCalls(o) ==
    IF o = "init_save_key raises" THEN <<"init_save_key">>
    ELSE IF o = "init_save_csr raises" THEN <<"init_save_key", "init_save_csr">>
    ELSE IF o \in {"request_issuance raises", "no chain"}
    THEN <<"init_save_key", "init_save_csr", "request_issuance">>
    ELSE <<"init_save_key", "init_save_csr", "request_issuance", "fetch_chain">>

\* How the rest of obtain_and_enroll_certificate may go once
\* obtain_certificate has returned: plugins.find_init raises, or
\* RenewableCert.new_lineage raises, or the lineage is made and
\* _report_renewal_status reports it.
EnrollOutcomes == {"find_init raises", "new_lineage raises", "enrolled"}

\* _report_renewal_status: one report of low priority, whatever the renewal
\* settings of the lineage say
_report_renewal_status == <<"low">>

\* The rest of obtain_certificate, once get_authorizations has returned, and
\* after it the rest of obtain_and_enroll_certificate when the call came
\* through it and obtain_certificate has returned (outcome e).
ObtainFinish(o, e) ==
    /\ c_pc = "authz"
    /\ GotAuthorizations
    /\ c_pc' = "idle"
    /\ issued_with' =
           IF "request_issuance" \in Range(IssuanceCalls(o))
           THEN [called |-> TRUE, authzr |-> result]
           ELSE NotIssued
    /\ IF ~(o \in {"chain", "no chain"})
       THEN /\ client_log' = client_log \o IssuanceCalls(o)
            /\ client_outcome' = ClientRaise("Exception", o)
            /\ reports' = reports
       ELSE IF ~enroll
       THEN /\ client_log' = client_log \o IssuanceCalls(o)
            /\ client_outcome' = ClientRaise("returned", "")
            /\ reports' = reports
       ELSE IF e # "enrolled"
       THEN /\ client_log' = client_log \o IssuanceCalls(o)
            /\ client_outcome' = ClientRaise("Exception", e)
            /\ reports' = reports
       ELSE /\ client_log' = client_log \o IssuanceCalls(o)
                                 \o [i \in 1..Len(_report_renewal_status) |->
                                        "add_message"]
            /\ client_outcome' = ClientRaise("returned", "")
            /\ reports' = reports \o _report_renewal_status
    /\ UNCHANGED <<auth_handler_set, config_tos, account, disk, registers, enroll>>

\* A client is constructed with an authenticator or without one, with the
\* terms pre-agreed in its configuration or not, for an unregistered account.
ClientInit ==
    /\ Init
    /\ PlanIdle
    /\ StoreIdle
    /\ WireIdle
    /\ NginxIdle
    /\ auth_handler_set \in BOOLEAN
    /\ config_tos \in BOOLEAN
    /\ account = [regr |-> NoRegr]
    /\ disk = [regr |-> NoRegr]
    /\ c_pc = "idle"
    /\ enroll = FALSE
    /\ registers = 0
    /\ client_log = <<>>
    /\ reports = <<>>
    /\ issued_with = NotIssued
    /\ client_outcome = ClientRunning

\* inside get_authorizations the handler takes its steps
InHandler ==
    c_pc = "authz" /\ UNCHANGED <<plan_vars, client_vars, store_vars, wire_vars, nginx_vars>>

ClientNext ==
    \/ /\ \E reg \in RegisterOutcomes, answer, tos_raises, save_raises \in BOOLEAN :
             Register(reg, answer, tos_raises, save_raises)
       /\ UNCHANGED <<handler_vars, plan_vars, store_vars, wire_vars, nginx_vars>>
    \/ /\ \E via \in BOOLEAN : ObtainRefused(via)
       /\ UNCHANGED <<handler_vars, plan_vars, store_vars, wire_vars, nginx_vars>>
    \/ /\ \E doms \in DomainLists, via \in BOOLEAN : ObtainCertificate(doms, via)
       /\ UNCHANGED <<plan_vars, store_vars, wire_vars, nginx_vars>>
    \/ /\ \E offer \in AuthzOffers : RequestDomainChallenges(offer)
       /\ InHandler
    \/ /\ ChooseChallenges
       /\ InHandler
    \/ /\ \E co \in PerformOutcomes(cont_c) :
             \E do \in PerformOutcomes(IF Raises(co) THEN <<>> ELSE dv_c) :
                 SolveChallenges(co, do)
       /\ InHandler
    \/ /\ Respond
       /\ InHandler
    \/ /\ \E k \in 1..(Len(dv_c) + Len(cont_c)) : AnswerRaises(k)
       /\ InHandler
    \/ /\ \E d \in to_visit :
             \E az \in PollResponses(authzr[d]) : PollDomain(d, az)
       /\ InHandler
    \/ /\ \E d \in to_visit : PollRaises(d)
       /\ InHandler
    \/ /\ RespondFinally
       /\ InHandler
    \/ /\ ReturnAuthorizations
       /\ InHandler
    \/ /\ ObtainRaises
       /\ UNCHANGED <<handler_vars, plan_vars, store_vars, wire_vars, nginx_vars>>
    \/ /\ \E o \in IssuanceOutcomes, e \in EnrollOutcomes : ObtainFinish(o, e)
       /\ UNCHANGED <<handler_vars, plan_vars, store_vars, wire_vars, nginx_vars>>

SpecClient == ClientInit /\ [][ClientNext]_vars

(***************************************************************************)
(* Properties of the client.                                               *)
(***************************************************************************)
\* the first position of a call in the client's log, 0 when it is not there
LogIndex(op) ==
    IF op \in Range(client_log)
    THEN CHOOSE i \in 1..Len(client_log) :
             client_log[i] = op /\ \A j \in 1..(i - 1) : client_log[j] # op
    ELSE 0

RefusedAtHead ==
    /\ client_outcome.kind = "LetsEncryptClientError"
    /\ client_outcome.msg \in {NoAuthenticatorMsg, RegisterFirstMsg}

\* C18, per state: get_authorizations is only ever called on a client that
\* has an auth_handler and a registered account, and an obtain_certificate
\* that was refused at its head made no call at all.
RefusedOutcome ==
    /\ (c_pc = "authz" \/ call > 0) => (auth_handler_set /\ account.regr.set)
    /\ RefusedAtHead =>
           (client_log = <<>> /\ ~issued_with.called /\ c_pc = "idle")

\* C18, per step: while auth_handler is null or regr is null no step moves
\* the handler (no authenticator call, no network operation), and the step
\* that refuses obtain_certificate changes neither the account nor its file.
RefusedStep ==
    /\ obtain_certificate_check # "ok" => UNCHANGED handler_vars
    /\ (client_outcome' # client_outcome
            /\ client_outcome'.kind = "LetsEncryptClientError"
            /\ client_outcome'.msg \in {NoAuthenticatorMsg, RegisterFirstMsg})
           => (obtain_certificate_check # "ok" /\ UNCHANGED <<account, disk>>)

\* C18: obtain_certificate fails with a client error and performs no
\* authenticator call and no network operation when auth_handler is null or
\* the account's regr is null.
RefusedObtainDoesNothing == []RefusedOutcome /\ [][RefusedStep]_vars

\* C18 witness: a client with an authenticator was told to register first.
ToldToRegisterFirst ==
    /\ auth_handler_set
    /\ client_outcome = ClientRaise("LetsEncryptClientError", RegisterFirstMsg)

\* C19: network.request_issuance is called only after get_authorizations
\* has returned normally, with exactly the list it returned, and never when
\* get_authorizations raised or is still running.
IssuanceOnlyAfterAuthorizations ==
    /\ issued_with.called <=> "request_issuance" \in Range(client_log)
    /\ issued_with.called =>
           /\ pc = "done"
           /\ outcome.kind = "returned"
           /\ issued_with.authzr = result
           /\ LogIndex("get_authorizations") = 1
           /\ LogIndex("request_issuance") > 1
    /\ c_pc = "authz" => ~issued_with.called
    /\ (LogIndex("get_authorizations") = 1 /\ outcome.kind # "returned") =>
           ~issued_with.called

\* C19 witness: issuance was requested with a list that is not empty.
IssuanceRequestedWithAuthzrs == issued_with.called /\ issued_with.authzr # {}

\* the last client call was a register whose registration has terms of
\* service that the configuration does not pre-agree
RegisteredWithOpenTerms ==
    /\ client_log # <<>>
    /\ client_log[1] = "register_from_account"
    /\ client_outcome.msg # "register_from_account"
    /\ account.regr.terms_of_service
    /\ ~config_tos

\* C20, per state: such a register prompted the user right after the
\* registration; on agreement network.agree_to_tos came next, before any
\* save; on refusal the call failed with "Must agree to TOS", agreed to
\* nothing, saved nothing and reported nothing.
TosPrompt ==
    RegisteredWithOpenTerms =>
        /\ Len(client_log) >= 2
        /\ client_log[2] \in {"yesno: Agree", "yesno: Cancel"}
        /\ client_log[2] = "yesno: Agree" =>
               /\ LogIndex("agree_to_tos") = 3
               /\ "save" \in Range(client_log) => LogIndex("save") > 3
        /\ client_log[2] = "yesno: Cancel" =>
               /\ client_outcome =
                      ClientRaise("LetsEncryptClientError", "Must agree to TOS")
               /\ Range(client_log) \cap {"agree_to_tos", "save", "add_message"} = {}
               /\ reports = <<>>

\* C20, per step: the register call that the user refuses leaves the account
\* file as it was; an account is written only by a call that did not fail
\* with "Must agree to TOS".
TosRefusalKeepsDisk ==
    /\ "yesno: Cancel" \in Range(client_log') => disk' = disk
    /\ disk' # disk => client_outcome'.msg # "Must agree to TOS"

\* C20: when the registered account has terms of service that are not
\* pre-agreed the user is prompted; on agreement agree_to_tos is called
\* before the account is saved; on refusal register fails with "Must agree
\* to TOS", the account is not saved and no report is emitted.
TosAgreementOrRefusal == []TosPrompt /\ [][TosRefusalKeepsDisk]_vars

\* C20 witness: the user refused the terms.
UserRefusedTerms ==
    /\ RegisteredWithOpenTerms
    /\ "yesno: Cancel" \in Range(client_log)

\* the last client call was a register that returned normally
RegisterSucceeded ==
    /\ client_log # <<>>
    /\ client_log[1] = "register_from_account"
    /\ client_outcome.kind = "returned"

\* the positions of a call in the client's log
LogPositions(op) == {i \in 1..Len(client_log) : client_log[i] = op}

\* C21: every successful register saved the account (the file holds the
\* account's registration), then emitted exactly two reports, the medium
\* "credentials saved" one and then the high recovery-token one; and no
\* register, successful or not, emitted a report before the save.
SuccessfulRegisterSavesThenReports ==
    /\ RegisterSucceeded =>
           /\ Cardinality(LogPositions("save")) = 1
           /\ disk = account
           /\ account.regr.set
           /\ reports = <<"medium", "high">>
           /\ LogPositions("add_message") =
                  {LogIndex("save") + 1, LogIndex("save") + 2}
           /\ Len(client_log) = LogIndex("save") + 2
    /\ (client_log # <<>> /\ client_log[1] = "register_from_account") =>
           /\ Len(reports) = Cardinality(LogPositions("add_message"))
           /\ \A i \in LogPositions("add_message") :
                  /\ LogIndex("save") > 0
                  /\ LogIndex("save") < i
                  /\ disk = account

\* C21 witness: a register that had to ask for the terms succeeded.
RegisterSucceededAfterAgreement ==
    /\ RegisterSucceeded
    /\ "yesno: Agree" \in Range(client_log)
    /\ reports = <<"medium", "high">>

\* C22: the registration is on disk before a network operation that uses it
\* concludes: agree_to_tos comes after a save of the account, and while
\* request_domain_challenges or request_issuance are made the account file
\* holds the account's registration.
RegistrationStoredBeforeNetworkUse ==
    /\ LogIndex("agree_to_tos") > 0 =>
           /\ LogIndex("save") > 0
           /\ LogIndex("save") < LogIndex("agree_to_tos")
    /\ (c_pc = "authz" /\ requests > 0) => disk.regr = account.regr
    /\ issued_with.called => disk.regr = account.regr

(***************************************************************************)
(* The account store: account.py.  A string that the code looks into (an   *)
(* email, a file name) is a sequence of characters; <<>> stands for None   *)
(* and for the empty string, which these operations treat alike.           *)
(***************************************************************************)
MaxEmailLen == 4
MaxAccounts == 1
MaxSaves == 1

\* Characters: "a" for the letters and digits, "%" for the characters of the
\* local part only, "!" for those of neither part.
EmailChars == {"a", ".", "%", "@", "!", "\n"}
LocalChars == {"a", ".", "%"}
DomainChars == {"a", "."}

Emails == SeqsUpTo(EmailChars, MaxEmailLen)

AllIn(s, C) == \A i \in 1..Len(s) : s[i] \in C

\* EMAIL_REGEX.match(email): [local]+@[domain]+$ from the start of the
\* string, where $ is the end of the string or the newline that ends it
EMAIL_REGEX_match(email) ==
    \E i \in 2..Len(email) :
        /\ email[i] = "@"
        /\ AllIn(SubSeq(email, 1, i - 1), LocalChars)
        /\ LET t == SubSeq(email, i + 1, Len(email))
               u == IF t # <<>> /\ t[Len(t)] = "\n"
                    THEN SubSeq(t, 1, Len(t) - 1) ELSE t
           IN  u # <<>> /\ AllIn(u, DomainChars)

startswith_dot(email) == email # <<>> /\ email[1] = "."

has_dotdot(email) ==
    \E i \in 1..(Len(email) - 1) : email[i] = "." /\ email[i + 1] = "."

\* Faulty variant: the pattern alone decides.
safe_email_PatternOnly(email) == EMAIL_REGEX_match(email)

safe_email(email) ==
    IF EMAIL_REGEX_match(email)
    THEN ~startswith_dot(email) /\ ~has_dotdot(email)
    ELSE FALSE

Default == <<"d", "e", "f", "a", "u", "l", "t">>

_get_config_filename(email) == IF email # <<>> THEN email ELSE Default

\* Account.__init__
Account(key, email, phone, regr) ==
    [key |-> key,
     email |-> IF email # <<>> /\ safe_email(email) THEN email ELSE <<>>,
     phone |-> phone,
     regr |-> regr]

\* what a caller may pass to Account(...)
ConstructorEmails == {<<>>, <<"a", "@", "a">>, <<".", "@", "a">>}
Phones == {Absent, Some("1234"), Some("None"), Some("")}
Bodies == {NoBody} \cup {[set |-> TRUE, recovery_token |-> k] :
                            k \in {Absent, Some("rt")}}
Resources ==
    {NoResource}
    \cup {[set |-> TRUE, uri |-> "uri", new_authzr_uri |-> "new_authzr_uri",
           terms_of_service |-> t, body |-> b] :
              t \in {Absent, Some("tos")}, b \in Bodies}

\* configobj writes a value that is not a string as str(value)
stringify(v) == IF v.some THEN v.str ELSE "None"

\* Registration.to_json: the fields that are set, by their JSON names
Registration_to_json(body) ==
    IF body.recovery_token.some
    THEN {<<"recoveryToken", body.recovery_token.str>>}
    ELSE {}

Registration_from_json(jobj) ==
    [set |-> TRUE,
     recovery_token |->
         IF \E kv \in jobj : kv[1] = "recoveryToken"
         THEN Some((CHOOSE kv \in jobj : kv[1] = "recoveryToken")[2])
         ELSE Absent]

NoSection ==
    [uri |-> "", new_authzr_uri |-> "", terms_of_service |-> "", body |-> {}]

\* Account.save: the file it writes, unless it raises before writing
save(a) ==
    IF a.regr.set /\ ~a.regr.body.set
    THEN [kind |-> "AttributeError", msg |-> "to_json"]
    ELSE [kind |-> "returned", msg |-> "",
          name |-> _get_config_filename(a.email),
          file |-> [key |-> a.key,
                    phone |-> stringify(a.phone),
                    has_rr |-> a.regr.set,
                    rr |-> IF a.regr.set
                           THEN [uri |-> a.regr.uri,
                                 new_authzr_uri |-> a.regr.new_authzr_uri,
                                 terms_of_service |->
                                     stringify(a.regr.terms_of_service),
                                 body |-> Registration_to_json(a.regr.body)]
                           ELSE NoSection]]

\* Account._from_config_fp for the file of that name
_from_config_fp(name) ==
    IF name \notin DOMAIN accounts_dir
    THEN [kind |-> "LetsEncryptClientError", msg |-> "Account does not exist",
          account |-> NoAccount]
    ELSE LET acc_config == accounts_dir[name]
             email == IF name # Default THEN name ELSE <<>>
             phone == IF acc_config.phone # "None"
                      THEN Some(acc_config.phone) ELSE Absent
             regr == IF acc_config.has_rr
                     THEN [set |-> TRUE,
                           uri |-> acc_config.rr.uri,
                           new_authzr_uri |-> acc_config.rr.new_authzr_uri,
                           terms_of_service |->
                               Some(acc_config.rr.terms_of_service),
                           body |-> Registration_from_json(acc_config.rr.body)]
                     ELSE NoResource
         IN  IF acc_config.key \notin account_keys_dir
             THEN [kind |-> "IOError", msg |-> "key", account |-> NoAccount]
             ELSE [kind |-> "returned", msg |-> "",
                   account |-> Account(acc_config.key, email, phone, regr)]

from_existing_account(email) == _from_config_fp(_get_config_filename(email))

\* Account.from_email: the outcome, the key files it adds, the account
from_email(email) ==
    IF email = <<>> \/ safe_email(email)
    THEN [kind |-> "returned", msg |-> "",
          keys |-> {_get_config_filename(email)},
          account |-> Account(_get_config_filename(email), email, Absent,
                              NoResource)]
    ELSE [kind |-> "LetsEncryptClientError", msg |-> "Invalid email address.",
          keys |-> {}, account |-> NoAccount]

\* from_email refused the email.  Such a call changes nothing, so what can
\* follow it is what could follow the state before it, and the run ends here.
Refused == acc_call.op = "from_email" /\ acc_call.kind # "returned"

\* Account.from_email(config, email), taken as the first operation of a run:
\* what it does depends on its argument alone.
FromEmail(email) ==
    /\ acc_call = NoAccountCall
    /\ acc_made < MaxAccounts
    /\ LET r == from_email(email)
       IN  /\ acc_call' = [op |-> "from_email", arg |-> email,
                           kind |-> r.kind, msg |-> r.msg]
           /\ account_keys_dir' = account_keys_dir \cup r.keys
           /\ acc' = IF r.kind = "returned" THEN r.account ELSE acc
           /\ acc_made' = IF r.kind = "returned" THEN acc_made + 1 ELSE acc_made
           /\ acc_saved' = IF r.kind = "returned" THEN FALSE ELSE acc_saved
    /\ UNCHANGED <<accounts_dir, saves, acc_loaded>>

\* Account(config, key, email, phone, regr)
Construct(email, phone, regr) ==
    /\ ~Refused
    /\ acc_made < MaxAccounts
    /\ acc_made' = acc_made + 1
    /\ acc' = Account(CallerKey, email, phone, regr)
    /\ acc_saved' = FALSE
    /\ acc_call' = [op |-> "Account", arg |-> email, kind |-> "returned",
                    msg |-> ""]
    /\ UNCHANGED <<accounts_dir, account_keys_dir, saves, acc_loaded>>

\* account.save() on the Account in hand
Save ==
    /\ ~Refused
    /\ acc_made > 0
    /\ saves < MaxSaves
    /\ saves' = saves + 1
    /\ acc_call' = [op |-> "save", arg |-> acc.email, kind |-> save(acc).kind,
                    msg |-> save(acc).msg]
    /\ IF save(acc).kind = "returned"
       THEN /\ accounts_dir' =
                   [n \in DOMAIN accounts_dir \cup {save(acc).name} |->
                       IF n = save(acc).name THEN save(acc).file
                       ELSE accounts_dir[n]]
            /\ acc_saved' = TRUE
       ELSE UNCHANGED <<accounts_dir, acc_saved>>
    /\ UNCHANGED <<acc, account_keys_dir, acc_made, acc_loaded>>

\* Account.from_existing_account(config, email)
Load(email) ==
    /\ ~Refused
    /\ acc_call.op # "from_existing_account"
    /\ acc_call' = [op |-> "from_existing_account", arg |-> email,
                    kind |-> from_existing_account(email).kind,
                    msg |-> from_existing_account(email).msg]
    /\ acc_loaded' = from_existing_account(email).account
    /\ UNCHANGED <<acc, accounts_dir, account_keys_dir, acc_made, saves, acc_saved>>

StoreInit ==
    /\ Init
    /\ PlanIdle
    /\ ClientIdle
    /\ StoreIdle
    /\ WireIdle
    /\ NginxIdle

store_outside_vars == <<handler_vars, plan_vars, client_vars, wire_vars,
                        nginx_vars>>

StoreNext ==
    \/ /\ acc_call = NoAccountCall
       /\ \E email \in Emails : FromEmail(email)
       /\ UNCHANGED store_outside_vars
    \/ /\ \E email \in ConstructorEmails, phone \in Phones, regr \in Resources :
             Construct(email, phone, regr)
       /\ UNCHANGED store_outside_vars
    \/ /\ Save
       /\ UNCHANGED store_outside_vars
    \/ /\ \E email \in ConstructorEmails \cup {acc.email} : Load(email)
       /\ UNCHANGED store_outside_vars

SpecStore == StoreInit /\ [][StoreNext]_vars

(***************************************************************************)
(* Properties of the account store.                                        *)
(***************************************************************************)
\* the last operation loaded the file that the Account in hand was saved to
LoadedWhatWasSaved ==
    /\ acc_saved
    /\ acc_call.op = "from_existing_account"
    /\ _get_config_filename(acc_call.arg) = _get_config_filename(acc.email)

\* C23: save followed by from_existing_account is a round trip: the file is
\* named by the email, or "default" without one, and loading by that name
\* yields an account with equal email, phone and regr.
SaveLoadRoundTrip ==
    /\ acc_saved =>
           /\ _get_config_filename(acc.email) \in DOMAIN accounts_dir
           /\ _get_config_filename(acc.email) =
                  (IF acc.email = <<>> THEN Default ELSE acc.email)
           /\ accounts_dir[_get_config_filename(acc.email)].phone =
                  (IF acc.phone.some THEN acc.phone.str ELSE "None")
    /\ LoadedWhatWasSaved =>
           /\ acc_call.kind = "returned"
           /\ acc_loaded.email = acc.email
           /\ acc_loaded.phone = acc.phone
           /\ acc_loaded.regr = acc.regr

\* the email that from_email was given is one that the claim says is refused
MustBeRefused(email) ==
    /\ email # <<>>
    /\ \/ ~EMAIL_REGEX_match(email)
       \/ email[1] = "."
       \/ has_dotdot(email)

\* C24, per state: from_email failed with the invalid-email client error for
\* every such email; the empty email gave the default account; every
\* account it returned is unregistered.
FromEmailOutcome ==
    acc_call.op = "from_email" =>
        /\ MustBeRefused(acc_call.arg) =>
               /\ acc_call.kind = "LetsEncryptClientError"
               /\ acc_call.msg = "Invalid email address."
        /\ acc_call.arg = <<>> =>
               /\ acc_call.kind = "returned"
               /\ acc.email = <<>>
               /\ acc.key = Default
               /\ _get_config_filename(acc.email) = Default
        /\ acc_call.kind = "returned" =>
               /\ ~acc.regr.set
               /\ acc.email = acc_call.arg
               /\ acc.key \in account_keys_dir

\* C24, per step: the call that fails makes no key and writes no file.
FromEmailRefusalStep ==
    (acc_call' # acc_call /\ acc_call'.op = "from_email"
         /\ acc_call'.kind # "returned")
        => UNCHANGED <<account_keys_dir, accounts_dir, acc, acc_made>>

\* C24: from_email fails with the invalid-email client error, without
\* generating or persisting a key, for every nonempty email that does not
\* match the pattern, starts with '.' or contains '..'; an empty email gives
\* the default account; every accepted case returns an unregistered account.
FromEmailValidation == []FromEmailOutcome /\ [][FromEmailRefusalStep]_vars

\* C24 witness: an email that matches the pattern was refused for its dots.
PatternMatchRefusedForDots ==
    /\ acc_call.op = "from_email"
    /\ acc_call.kind = "LetsEncryptClientError"
    /\ EMAIL_REGEX_match(acc_call.arg)
    /\ has_dotdot(acc_call.arg)
    /\ account_keys_dir = {CallerKey}

(***************************************************************************)
(* The type field of an ACME Error on the wire: acme.messages.Error.  A    *)
(* string is a sequence of pieces, so that a prefix can be cut off it.     *)
(***************************************************************************)
MaxWireLen == 4

ERROR_TYPE_NAMESPACE == <<"urn:", "acme:", "error:">>

\* the registered codes
ERROR_TYPE_DESCRIPTIONS ==
    {<<c>> : c \in {"badCSR", "badNonce", "connection", "dnssec", "malformed",
                    "serverInternal", "tls", "unauthorized", "unknownHost"}}

\* the pieces a type on the wire is made of here
WirePieces ==
    {"urn:", "acme:", "error:", "malformed", "unauthorized", "baz", " "}

WireTypes == SeqsUpTo(WirePieces, MaxWireLen)

\* the typ of an Error that is serialized: a registered code
ErrorTyps == {<<"malformed">>, <<"unauthorized">>}

startswith(value, prefix) ==
    /\ Len(value) >= Len(prefix)
    /\ SubSeq(value, 1, Len(prefix)) = prefix

\* the encoder of Error.typ
typ_encoder(value) == ERROR_TYPE_NAMESPACE \o value

\* Faulty variant: a bare code is taken as well.
typ_decoder_BareAccepted(value) ==
    LET without_prefix ==
            IF startswith(value, ERROR_TYPE_NAMESPACE)
            THEN SubSeq(value, Len(ERROR_TYPE_NAMESPACE) + 1, Len(value))
            ELSE value
    IN  IF without_prefix \notin ERROR_TYPE_DESCRIPTIONS
        THEN [kind |-> "DeserializationError", typ |-> <<>>,
              msg |-> "Error type not recognized", wire |-> value]
        ELSE [kind |-> "returned", typ |-> without_prefix, msg |-> "",
              wire |-> value]

\* the decoder of Error.typ
typ_decoder(value) ==
    IF ~startswith(value, ERROR_TYPE_NAMESPACE)
    THEN [kind |-> "DeserializationError", typ |-> <<>>,
          msg |-> "Missing error type prefix", wire |-> value]
    ELSE LET without_prefix ==
                 SubSeq(value, Len(ERROR_TYPE_NAMESPACE) + 1, Len(value))
         IN  IF without_prefix \notin ERROR_TYPE_DESCRIPTIONS
             THEN [kind |-> "DeserializationError", typ |-> <<>>,
                   msg |-> "Error type not recognized", wire |-> value]
             ELSE [kind |-> "returned", typ |-> without_prefix, msg |-> "",
                   wire |-> value]

\* Either a JSON object with that type is to be parsed, or an Error with
\* that typ is to be serialized and parsed back.
WireInit ==
    /\ Init
    /\ PlanIdle
    /\ ClientIdle
    /\ StoreIdle
    /\ NginxIdle
    /\ \/ \E w \in WireTypes : err_in = [op |-> "from_json", typ |-> w]
       \/ \E t \in ErrorTyps : err_in = [op |-> "to_json", typ |-> t]
    /\ err_out = NoErrOut

\* Error(typ=...).to_partial_json()['type']
ErrorToJson ==
    /\ err_in.op = "to_json"
    /\ err_out = NoErrOut
    /\ err_out' = [kind |-> "json", typ |-> <<>>, msg |-> "",
                   wire |-> typ_encoder(err_in.typ)]
    /\ UNCHANGED err_in

\* Error.from_json(jobj), of the object given or of the one just serialized
ErrorFromJson ==
    /\ \/ err_in.op = "from_json" /\ err_out = NoErrOut
       \/ err_in.op = "to_json" /\ err_out.kind = "json"
    /\ err_out' = typ_decoder(IF err_in.op = "from_json" THEN err_in.typ
                              ELSE err_out.wire)
    /\ UNCHANGED err_in

wire_outside_vars == <<handler_vars, plan_vars, client_vars, store_vars,
                       nginx_vars>>

WireNext ==
    \/ /\ ErrorToJson
       /\ UNCHANGED wire_outside_vars
    \/ /\ ErrorFromJson
       /\ UNCHANGED wire_outside_vars

SpecWire == WireInit /\ [][WireNext]_vars

(***************************************************************************)
(* Properties of the Error type field.                                     *)
(***************************************************************************)
Parsed == err_out.kind \in {"returned", "DeserializationError"}

\* C25: a wire type is accepted only when it is the prefix urn:acme:error:
\* followed by a registered code, and then typ is the bare code; anything
\* else, a bare registered code included, fails with DeserializationError;
\* an Error serialized and parsed back has the typ it had.
ErrorTypeDecoding ==
    /\ Parsed =>
           /\ err_out.kind = "returned" <=>
                  \E c \in ERROR_TYPE_DESCRIPTIONS :
                      err_out.wire = <<"urn:", "acme:", "error:">> \o c
           /\ err_out.kind = "returned" =>
                  err_out.wire = <<"urn:", "acme:", "error:">> \o err_out.typ
           /\ err_out.wire \in ERROR_TYPE_DESCRIPTIONS =>
                  /\ err_out.kind = "DeserializationError"
                  /\ err_out.msg = "Missing error type prefix"
    /\ (Parsed /\ err_in.op = "from_json") => err_out.wire = err_in.typ
    /\ (Parsed /\ err_in.op = "to_json") =>
           /\ err_out.kind = "returned"
           /\ err_out.typ = err_in.typ

\* C25 witness: the bare registered code "malformed" was refused.
BareCodeRefused ==
    /\ err_in = [op |-> "from_json", typ |-> <<"malformed">>]
    /\ err_out.kind = "DeserializationError"

(***************************************************************************)
(* More properties of the handler.                                         *)
(***************************************************************************)
\* C26: an achall lives within one call: when a call has ended, by return or
\* by exception, dv_c and cont_c are empty, and no achall made by an earlier
\* call is passed to perform, answer_challenge or cleanup.
AchallLivesWithinOneCall ==
    /\ Done => (dv_c = <<>> /\ cont_c = <<>>)
    /\ \A a \in performed \cup cleaned \cup Range(answer_log) : a.call = call

\* a step of the polling phase that calls network.poll
PollCall == pc = "poll"

\* C27, per state: a polling phase runs at most max_rounds rounds and has
\* slept once for each round it began; it goes on only while the pending set
\* is not empty; the polls of a round are polls of pending domains.
PollRounds ==
    /\ rounds <= max_rounds
    /\ sleeps <= max_rounds
    /\ \A p \in polled : p[1] < max_rounds /\ p[1] <= rounds
    /\ pc = "poll" =>
           /\ dom_to_check # {}
           /\ rounds < max_rounds
           /\ sleeps = rounds + 1
           /\ to_visit # {}
           /\ to_visit \subseteq dom_to_check
           /\ {p[2] : p \in {q \in polled : q[1] = rounds}} =
                  dom_to_check \ to_visit
    /\ (pc = "finally" /\ outcome = Running) =>
           /\ sleeps = rounds
           /\ dom_to_check = {} \/ rounds = max_rounds

\* C27, per step: a poll is the poll of one domain that is pending and has
\* not been polled in this round; a domain that has left the pending set is
\* not pending again in the phase.
PollOncePerRound ==
    /\ PollCall =>
           \E d \in dom_to_check :
               /\ <<rounds, d>> \notin polled
               /\ polled' = polled \cup {<<rounds, d>>}
    /\ (PollCall /\ pc' = "poll") => dom_to_check' \subseteq dom_to_check
    /\ (PollCall /\ dom_to_check' = {}) => pc' = "finally"

\* C27: each polling phase runs at most max_rounds rounds, sleeps once per
\* round, polls each still-pending domain at most once per round, stops as
\* soon as the pending set is empty and never polls a domain that has left
\* the pending set.
PollingPhaseIsBounded == []PollRounds /\ [][PollOncePerRound]_vars

\* C27 witness: the phase ran out of rounds with a domain left, after a
\* domain had left the pending set in an earlier round.
RanOutOfRounds ==
    /\ pc = "finally"
    /\ outcome = Running
    /\ rounds = max_rounds
    /\ dom_to_check # {}
    /\ \E p \in polled : p[1] = 0 /\ p[2] \notin dom_to_check

(***************************************************************************)
(* The handler with authorizations that offer two challenges, one of each  *)
(* family, to be solved together, called for one domain at a time.         *)
(***************************************************************************)
TwoChallengeOffers ==
    { [challs |-> <<"SimpleHTTP", "RecoveryToken">>, combos |-> << <<0, 1>> >>],
      [challs |-> <<"RecoveryToken", "DVSNI">>, combos |-> <<>>] }

OneDomainLists == {<<d>> : d \in Domains}

MaxCalls == 1

TwoChallengeNext ==
    \/ /\ call < MaxCalls
       /\ \E doms \in OneDomainLists, be \in BOOLEAN : Call(doms, be)
       /\ UNCHANGED outside_vars
    \/ /\ \E offer \in TwoChallengeOffers : RequestDomainChallenges(offer)
       /\ UNCHANGED outside_vars
    \/ /\ ChooseChallenges
       /\ UNCHANGED outside_vars
    \/ /\ \E co \in PerformOutcomes(cont_c) :
             \E do \in PerformOutcomes(IF Raises(co) THEN <<>> ELSE dv_c) :
                 SolveChallenges(co, do)
       /\ UNCHANGED outside_vars
    \/ /\ Respond
       /\ UNCHANGED outside_vars
    \/ /\ \E k \in 1..(Len(dv_c) + Len(cont_c)) : AnswerRaises(k)
       /\ UNCHANGED outside_vars
    \/ /\ \E d \in to_visit :
             \E az \in PollResponses(authzr[d]) : PollDomain(d, az)
       /\ UNCHANGED outside_vars
    \/ /\ \E d \in to_visit : PollRaises(d)
       /\ UNCHANGED outside_vars
    \/ /\ RespondFinally
       /\ UNCHANGED outside_vars
    \/ /\ ReturnAuthorizations
       /\ UNCHANGED outside_vars

SpecTwoChallenges == HandlerInit /\ [][TwoChallengeNext]_vars

\* the achalls of the last poll that the answer shows with status st
PolledWith(st) ==
    {i \in 1..Len(last_poll.achalls) :
        _get_chall_status(last_poll.authzr, last_poll.achalls[i]) = st}

\* what C28 says makes the polled domain leave the pending set
ShouldLeave ==
    \/ last_poll.authzr.status = "valid"
    \/ PolledWith("valid") = 1..Len(last_poll.achalls)
    \/ best_effort /\ PolledWith("invalid") # {}

\* the polled domain has left the pending set, or leaves it when the round
\* ends
HasLeft == last_poll.domain \in comp_domains \/ last_poll.domain \notin dom_to_check

\* C28: in a poll round a domain leaves the pending set exactly when the
\* polled body is valid, or each of its outstanding achalls is valid, or,
\* with best_effort, one of them is invalid; when none is invalid and some
\* are undecided the valid ones are dropped from its outstanding list and it
\* stays pending; the outstanding list of a pending domain is never empty.
DomainLeavesWhenDecided ==
    /\ (last_poll # NoPoll /\ outcome = Running) =>
           /\ HasLeft <=> ShouldLeave
           /\ ~HasLeft =>
                  /\ PolledWith("invalid") = {}
                  /\ chall_update[last_poll.domain] =
                         LET Undecided_(a) ==
                                 _get_chall_status(last_poll.authzr, a) # "valid"
                         IN  SelectSeq(last_poll.achalls, Undecided_)
                  /\ last_poll.domain \in dom_to_check
    /\ pc = "poll" => \A d \in dom_to_check \ comp_domains : chall_update[d] # <<>>
    /\ (last_poll # NoPoll /\ outcome.msg = "Failed Authorization procedure") =>
           /\ ~best_effort
           /\ last_poll.authzr.status # "valid"
           /\ PolledWith("invalid") # {}

\* C28 witness: a domain with two outstanding achalls was polled, one was
\* valid and one undecided, and it stays pending with the undecided one.
ValidDroppedDomainStays ==
    /\ pc = "poll"
    /\ last_poll # NoPoll
    /\ Len(last_poll.achalls) = 2
    /\ Cardinality(PolledWith("valid")) = 1
    /\ Len(chall_update[last_poll.domain]) = 1
    /\ last_poll.domain \in dom_to_check \ comp_domains

(***************************************************************************)
(* More properties of the planner.                                         *)
(***************************************************************************)
PlanTyp(k) == plan_in.challbs[k + 1].typ

\* offered challenge k comes before offered challenge m in the walk: by the
\* rank of its variant in the preferences, then by its index
WalkedBefore(k, m) ==
    \/ PlanRank(PlanTyp(k)) < PlanRank(PlanTyp(m))
    \/ PlanRank(PlanTyp(k)) = PlanRank(PlanTyp(m)) /\ k < m

\* C29: without combinations the path lists, by preference rank and then by
\* offered index, every offered challenge whose variant is preferred and
\* that excludes no challenge chosen earlier in the walk; no index comes
\* twice; when no offered variant is preferred the path is empty and nothing
\* is raised.
DumbPathIsTheWalk ==
    (Planned /\ ~WithCombinations) =>
        LET path == plan_out.path
            offered == 0..(Len(plan_in.challbs) - 1)
            Preferred(k) == PlanTyp(k) \in Range(plan_in.preferences)
        IN  /\ plan_out.kind = "ok"
            /\ Range(path) \subseteq offered
            /\ \A i, j \in 1..Len(path) :
                   i < j => WalkedBefore(path[i], path[j])
            /\ \A k \in offered :
                   k \in Range(path) <=>
                       /\ Preferred(k)
                       /\ \A m \in Range(path) :
                              WalkedBefore(m, k) =>
                                  ~Exclusive(PlanTyp(m), PlanTyp(k))
            /\ (\A k \in offered : ~Preferred(k)) => path = <<>>

\* C29 witness: the path takes the second offered challenge first.
PathInPreferenceOrder ==
    /\ Planned
    /\ ~WithCombinations
    /\ plan_out.path = <<1, 0>>

(***************************************************************************)
(* _cleanup_challenges with a given list.                                  *)
(***************************************************************************)
\* the members of a list of achalls whose challenge is of one of the types
OfTypes(achalls, types) ==
    LET Test(a) == a.typ \in types IN SelectSeq(achalls, Test)

\* a list of achalls without the members of another
Without(achalls, achall_list) ==
    LET Test(a) == a \notin Range(achall_list) IN SelectSeq(achalls, Test)

\* the one call an authenticator gets for its part of the list, none for an
\* empty part
ExpectedCleanup(auth, part) ==
    IF part = <<>> THEN {} ELSE {[auth |-> auth, achalls |-> part]}

\* C30: _cleanup_challenges(achall_list) passes exactly the DV members of the
\* list to dv_auth.cleanup and exactly the continuity members to
\* cont_auth.cleanup, calls neither for an empty part, removes exactly the
\* listed achalls from dv_c and cont_c and leaves the others in place, in
\* their order.
CleanupOfGivenList ==
    [][pc = "finally" =>
          LET expected ==
                  ExpectedCleanup("dv", OfTypes(active_achalls, DVChallenge))
                  \cup ExpectedCleanup("cont",
                           OfTypes(active_achalls, ContinuityChallenge))
          IN  /\ last_cleanup'.given
              /\ last_cleanup'.achall_list = active_achalls
              /\ Range(last_cleanup'.calls) = expected
              /\ Len(last_cleanup'.calls) = Cardinality(expected)
              /\ dv_c' = Without(dv_c, active_achalls)
              /\ cont_c' = Without(cont_c, active_achalls)]_vars

\* C30 witness: a given list was cleaned up with an authenticator called,
\* and an achall that was not in the list is still outstanding.
CleanedListLeftOthers ==
    /\ last_cleanup.given
    /\ last_cleanup.calls # <<>>
    /\ \E a \in Range(dv_c) \cup Range(cont_c) :
           a \notin Range(last_cleanup.achall_list)

(***************************************************************************)
(* The two lists of outstanding achalls.                                   *)
(***************************************************************************)
\* the achalls the authenticators were handed by the last
\* _cleanup_challenges call
LastCleaned ==
    UNION {Range(last_cleanup.calls[i].achalls) :
               i \in 1..Len(last_cleanup.calls)}

\* C31, per state: dv_c holds DV achalls only, cont_c continuity achalls
\* only, and no achall is in both.
ListsSplitByFamily ==
    /\ \A a \in Range(dv_c) : a.typ \in DVChallenge
    /\ \A a \in Range(cont_c) : a.typ \in ContinuityChallenge
    /\ Range(dv_c) \cap Range(cont_c) = {}

\* C31, per step: an achall that is in dv_c or cont_c before a step and not
\* after it was removed by a _cleanup_challenges call made in that step,
\* which handed it to an authenticator's cleanup.
LeavesOnlyThroughCleanup ==
    \A a \in (Range(dv_c) \ Range(dv_c')) \cup (Range(cont_c) \ Range(cont_c')) :
        /\ \/ pc = "finally"
           \/ pc = "loop" /\ outcome'.kind = "AuthorizationError"
        /\ a \in LastCleaned'
        /\ a \in cleaned'

\* C31: in every reachable handler state dv_c holds only DV-family achalls
\* and cont_c only continuity-family achalls, no achall is in both lists,
\* and an achall leaves its list only through _cleanup_challenges.
OutstandingListsDiscipline ==
    []ListsSplitByFamily /\ [][LeavesOnlyThroughCleanup]_vars

\* C31 witness: an achall of one family has left its list through a cleanup
\* while an achall of the other family is outstanding.
LeftWhileOtherFamilyOutstanding ==
    \E a \in LastCleaned, b \in Range(dv_c) \cup Range(cont_c) :
        /\ a \notin Range(dv_c) \cup Range(cont_c)
        /\ Family(a.typ) # Family(b.typ)

(***************************************************************************)
(* The nginx configurator as an authenticator: perform and cleanup.        *)
(***************************************************************************)
MaxNginxLen == 2
MaxNginxCalls == 3

\* the annotated challenges the configurator may be handed: achallenges.DVSNI
\* and an achall of another class
NginxAchalls ==
    {[domain |-> d, typ |-> t] : d \in Domains, t \in {"DVSNI", "SimpleHTTP"}}

NginxAchallLists == SeqsUpTo(NginxAchalls, MaxNginxLen)

\* Python's None in a list of responses
None == [domain |-> "", typ |-> "None"]

\* common.Dvsni._setup_challenge_cert(achall): the DVSNIResponse for achall
_setup_challenge_cert(achall) ==
    [domain |-> achall.domain, typ |-> "DVSNIResponse"]

\* common.Dvsni.add_chall(achall, idx), called by the first loop of perform
\* for the DVSNI achalls from position i (0-based) on: the achalls and the
\* indices the NginxDvsni object ends up with
RECURSIVE add_chall(_, _)
add_chall(achalls, i) ==
    IF i >= Len(achalls) THEN [achalls |-> <<>>, indices |-> <<>>]
    ELSE LET rest == add_chall(achalls, i + 1)
         IN  IF achalls[i + 1].typ = "DVSNI"
             THEN [achalls |-> <<achalls[i + 1]>> \o rest.achalls,
                   indices |-> <<i>> \o rest.indices]
             ELSE rest

\* NginxDvsni._mod_config: TRUE when it raises
_mod_config == ~http_block

\* NginxDvsni.perform
NginxDvsni_perform(nginx_dvsni) ==
    IF nginx_dvsni.achalls = <<>>
    THEN [kind |-> "returned", responses |-> <<>>]
    ELSE IF _mod_config
    THEN [kind |-> "LetsEncryptMisconfigurationError", responses |-> <<>>]
    ELSE [kind |-> "returned",
          responses |-> [i \in 1..Len(nginx_dvsni.achalls) |->
                             _setup_challenge_cert(nginx_dvsni.achalls[i])]]

\* Faulty variant: the responses are put at the front, in the order they
\* came.
RECURSIVE AssignResponses_Front(_, _, _, _)
AssignResponses_Front(responses, sni_response, indices, i) ==
    IF i > Len(sni_response) THEN responses
    ELSE AssignResponses_Front([responses EXCEPT ![i] = sni_response[i]],
                               sni_response, indices, i + 1)

\* the last loop of perform: responses[nginx_dvsni.indices[i]] = resp
RECURSIVE AssignResponses(_, _, _, _)
AssignResponses(responses, sni_response, indices, i) ==
    IF i > Len(sni_response) THEN responses
    ELSE AssignResponses(
             [responses EXCEPT ![indices[i] + 1] = sni_response[i]],
             sni_response, indices, i + 1)

\* How running the nginx binary may go for nginx_restart: the reload works,
\* reload and start both fail (nginx_restart returns False), or the binary
\* cannot be run (OSError, ValueError).
RestartOutcomes == {"reloaded", "failed", "cannot run"}

\* nginx_restart(nginx_ctl), which restart() returns: True, False, or
\* sys.exit(1)
nginx_restart(ran) ==
    IF ran = "cannot run" THEN [kind |-> "SystemExit", value |-> FALSE]
    ELSE [kind |-> "returned", value |-> ran = "reloaded"]

\* NginxConfigurator.perform(achalls), the binary running as ran
perform(achalls, ran) ==
    LET nginx_dvsni == add_chall(achalls, 0)
        sni == NginxDvsni_perform(nginx_dvsni)
    IN  IF sni.kind = "returned" /\ nginx_restart(ran).kind # "returned"
        THEN [op |-> "perform", achalls |-> achalls,
              kind |-> nginx_restart(ran).kind, responses |-> <<>>,
              dvsni_performs |-> 1, restarts |-> 1, reverts |-> 0]
        ELSE IF sni.kind = "returned"
        THEN [op |-> "perform", achalls |-> achalls, kind |-> "returned",
              responses |-> AssignResponses([i \in 1..Len(achalls) |-> None],
                                sni.responses, nginx_dvsni.indices, 1),
              dvsni_performs |-> 1, restarts |-> 1, reverts |-> 0]
        ELSE [op |-> "perform", achalls |-> achalls, kind |-> sni.kind,
              responses |-> <<>>,
              dvsni_performs |-> 1, restarts |-> 0, reverts |-> 0]

\* NginxConfigurator.cleanup(achalls), the binary running as ran: the
\* counter afterwards and what the call did
cleanup(achalls, ran) ==
    LET left == _chall_out - Len(achalls)
    IN  [_chall_out |-> left,
         call |-> [op |-> "cleanup", achalls |-> achalls,
                   kind |-> IF left <= 0 THEN nginx_restart(ran).kind
                            ELSE "returned",
                   responses |-> <<>>, dvsni_performs |-> 0,
                   restarts |-> IF left <= 0 THEN 1 ELSE 0,
                   reverts |-> IF left <= 0 THEN 1 ELSE 0]]

NginxInit ==
    /\ Init
    /\ PlanIdle
    /\ ClientIdle
    /\ StoreIdle
    /\ WireIdle
    /\ _chall_out = 0
    /\ http_block \in BOOLEAN
    /\ nginx_calls = 0
    /\ nginx_call = NoNginxCall
    /\ unfinished = {}

Perform(achalls, ran) ==
    /\ nginx_calls < MaxNginxCalls
    /\ nginx_calls' = nginx_calls + 1
    /\ _chall_out' = _chall_out + Len(achalls)
    /\ nginx_call' = perform(achalls, ran)
    /\ unfinished' = IF nginx_call'.kind = "returned"
                     THEN unfinished \cup Range(achalls) ELSE unfinished
    /\ UNCHANGED http_block

Cleanup(achalls, ran) ==
    /\ nginx_calls < MaxNginxCalls
    /\ nginx_calls' = nginx_calls + 1
    /\ _chall_out' = cleanup(achalls, ran)._chall_out
    /\ nginx_call' = cleanup(achalls, ran).call
    /\ unfinished' = unfinished \ Range(achalls)
    /\ UNCHANGED http_block

nginx_outside_vars == <<handler_vars, plan_vars, client_vars, store_vars,
                        wire_vars>>

NginxNext ==
    \/ /\ \E achalls \in NginxAchallLists, ran \in RestartOutcomes :
             Perform(achalls, ran)
       /\ UNCHANGED nginx_outside_vars
    \/ /\ \E achalls \in NginxAchallLists, ran \in RestartOutcomes :
             Cleanup(achalls, ran)
       /\ UNCHANGED nginx_outside_vars

SpecNginx == NginxInit /\ [][NginxNext]_vars

\* C32: a perform call that returns gives a list as long as its input with
\* the response of each DVSNI achall at that achall's position and None at
\* every other position, after one call of the DVSNI performer and one
\* restart of the server.
PerformKeepsPositions ==
    nginx_call.op = "perform" =>
        /\ nginx_call.dvsni_performs = 1
        /\ nginx_call.kind = "returned" =>
               /\ nginx_call.restarts = 1
               /\ Len(nginx_call.responses) = Len(nginx_call.achalls)
               /\ \A i \in 1..Len(nginx_call.achalls) :
                      nginx_call.responses[i] =
                          IF nginx_call.achalls[i].typ = "DVSNI"
                          THEN [domain |-> nginx_call.achalls[i].domain,
                                typ |-> "DVSNIResponse"]
                          ELSE None

\* C32 witness: perform returned for a list whose DVSNI achall comes second,
\* after an achall of another class.
PerformedMixedList ==
    /\ nginx_call.op = "perform"
    /\ nginx_call.kind = "returned"
    /\ Len(nginx_call.achalls) = 2
    /\ nginx_call.achalls[1].typ # "DVSNI"
    /\ nginx_call.achalls[2].typ = "DVSNI"

\* C33: cleanup reverts the challenge configuration only when no performed
\* achall is left that was not cleaned up, and _chall_out is never negative.
RevertOnlyWhenAllFinished ==
    /\ _chall_out >= 0
    /\ (nginx_call.op = "cleanup" /\ nginx_call.reverts > 0) =>
           unfinished = {}

(***************************************************************************)
(* Answered achalls.                                                       *)
(***************************************************************************)
\* the achalls of the handler's two lists
Outstanding == Range(dv_c) \cup Range(cont_c)

\* between rounds and at the end of the call every answered achall has been
\* cleaned up and is in neither list
AnsweredAreCleanedUp ==
    pc \in {"loop", "done"} =>
        \A a \in answered : a \in cleaned /\ a \notin Outstanding

\* no step performs or answers an achall that was answered before in this
\* call
AnsweredOnce ==
    /\ (pc = "loop" /\ pc' # "loop") => answered \cap Outstanding = {}
    /\ pc = "respond" => answered \cap Range(AnswerOrder) = {}

\* C34: within one get_authorizations call an achall is sent to
\* network.answer_challenge at most once: once answered it is cleaned up and
\* removed from dv_c/cont_c at the end of that round and is never performed
\* or answered again.
AnsweredAchallsAreFinished ==
    []AnsweredAreCleanedUp /\ [][AnsweredOnce]_vars

(***************************************************************************)
(* Termination of get_authorizations.                                      *)
(***************************************************************************)
\* The handler with its steps taken as long as one can be taken: a call that
\* has begun goes on, every collaborator's call returns or raises.
SpecFair == HandlerInit /\ [][Next]_vars /\ WF_vars(Next)

\* C35: every get_authorizations call that has begun ends, by returning or
\* by raising.
EveryCallEnds == (pc \notin {"idle", "done"}) ~> (pc = "done")

(***************************************************************************)
(* A handler whose server offers two challenges of one variant.            *)
(***************************************************************************)
\* no combinations: the dumb path plans both challenges
SameVariantOffers ==
    { [challs |-> <<"DVSNI", "DVSNI">>, combos |-> <<>>] }

SameVariantNext ==
    \/ /\ call < MaxCalls
       /\ \E doms \in OneDomainLists, be \in BOOLEAN : Call(doms, be)
       /\ UNCHANGED outside_vars
    \/ /\ \E offer \in SameVariantOffers : RequestDomainChallenges(offer)
       /\ UNCHANGED outside_vars
    \/ /\ ChooseChallenges
       /\ UNCHANGED outside_vars
    \/ /\ \E co \in PerformOutcomes(cont_c) :
             \E do \in PerformOutcomes(IF Raises(co) THEN <<>> ELSE dv_c) :
                 SolveChallenges(co, do)
       /\ UNCHANGED outside_vars
    \/ /\ Respond
       /\ UNCHANGED outside_vars
    \/ /\ \E k \in 1..(Len(dv_c) + Len(cont_c)) : AnswerRaises(k)
       /\ UNCHANGED outside_vars
    \/ /\ \E d \in to_visit :
             \E az \in PollResponses(authzr[d]) : PollDomain(d, az)
       /\ UNCHANGED outside_vars
    \/ /\ \E d \in to_visit : PollRaises(d)
       /\ UNCHANGED outside_vars
    \/ /\ RespondFinally
       /\ UNCHANGED outside_vars
    \/ /\ ReturnAuthorizations
       /\ UNCHANGED outside_vars

SpecSameVariant == HandlerInit /\ [][SameVariantNext]_vars

\* C36: the status the handler looks up for an achall when it polls is the
\* status of the challenge the achall was built from, the one at the
\* achall's index in the authorization, also with two challenges of one
\* variant; with no challenge of the achall's variant in the authorization
\* the lookup raises AuthorizationError.
StatusOfOwnChallenge ==
    last_poll # NoPoll =>
        \A a \in Range(last_poll.achalls) :
            LET az == last_poll.authzr
                present == \E i \in 1..Len(az.challs) : az.challs[i].typ = a.typ
            IN  /\ (present /\ az.status # STATUS_VALID) =>
                       _get_chall_status(az, a) = az.challs[a.idx + 1].status
                /\ (~present /\ az.status # STATUS_VALID) =>
                       /\ outcome.kind = "AuthorizationError"
                       /\ outcome.msg = "Target challenge not found"

(***************************************************************************)
(* Supported combinations.                                                 *)
(***************************************************************************)
\* the k-th combination is not empty and every challenge in it is of a
\* preferred variant
SupportedCombination(k) ==
    LET combo == plan_in.combinations[k]
    IN  /\ combo # <<>>
        /\ \A i \in 1..Len(combo) :
               plan_in.challbs[combo[i] + 1].typ \in Range(plan_in.preferences)

\* C37: with combinations present, gen_challenge_path returns a path
\* whenever some non-empty combination holds challenges of preferred
\* variants only; it raises AuthorizationError only when there is none.
SupportedCombinationGivesPath ==
    (/\ Planned
     /\ WithCombinations
     /\ \E k \in 1..Len(plan_in.combinations) : SupportedCombination(k))
        => plan_out.kind = "ok"

(***************************************************************************)
(* Requests and planning come first.                                       *)
(***************************************************************************)
\* neither authenticator and no challenge-related network operation has
\* been used in the running call
NothingTouched ==
    /\ performed = {}
    /\ perform_log = <<>>
    /\ answered = {}
    /\ answer_log = <<>>
    /\ polled = {}
    /\ cleaned = {}

\* no path can be planned for the domain's authorization
PlanFails(d) ==
    gen_challenge_path(authzr[d].challs, _get_chall_pref,
                       authzr[d].combos).kind # "ok"

\* C38, per state: while authorizations are requested and paths planned
\* nothing is performed, answered or polled, and a call that a planning
\* failure ended never got there.
RequestsAndPlansFirst ==
    /\ pc \in {"request", "choose"} => NothingTouched
    /\ ~NothingTouched => \A d \in Range(domains) : authzr[d] # NoAuthz
    /\ (pc = "done" /\ outcome.msg = "planning") => NothingTouched

\* C38, per step: when no path can be planned for one of the domains the
\* planning step ends the call with AuthorizationError, best effort or not.
PlanningFailureAborts ==
    (pc = "choose" /\ \E d \in Range(domains) : PlanFails(d)) =>
        /\ pc' = "done"
        /\ outcome'.kind = "AuthorizationError"
        /\ outcome'.msg = "planning"

\* C38: no perform, answer_challenge or poll happens before every domain's
\* authorization is requested and every domain's path planned; a planning
\* failure for one domain aborts the call, in best_effort mode too, before
\* any authenticator is touched.
NothingBeforePlanning ==
    []RequestsAndPlansFirst /\ [][PlanningFailureAborts]_vars

\* C38 witness: a best-effort call for two domains ended by a planning
\* failure for the second, the first domain's achalls planned and untouched.
BestEffortPlanningFailure ==
    /\ pc = "done"
    /\ outcome.msg = "planning"
    /\ best_effort
    /\ Len(domains) = 2
    /\ ~PlanFails(domains[1])
    /\ PlanFails(domains[2])
    /\ \E a \in Range(dv_c) \cup Range(cont_c) : a.call = call

(***************************************************************************)
(* What issuance is requested with.                                        *)
(***************************************************************************)
\* C39: network.request_issuance is called only when every domain of the
\* obtain_certificate call has a valid authorization in the list passed;
\* never with an empty list or one that misses a requested domain.
IssuanceCoversEveryDomain ==
    issued_with.called =>
        /\ issued_with.authzr # {}
        /\ \A d \in Range(domains) :
               \E r \in issued_with.authzr :
                   r.domain = d /\ r.status = STATUS_VALID

(***************************************************************************)
(* obtain_certificate after a register that failed.                        *)
(***************************************************************************)
\* the last client call was a register that failed over the terms of
\* service: the user refused them, or network.agree_to_tos raised
RegisterFailedOverTerms ==
    /\ c_pc = "idle"
    /\ client_outcome \in
           {ClientRaise("LetsEncryptClientError", "Must agree to TOS"),
            ClientRaise("Exception", "agree_to_tos")}

\* C40: an obtain_certificate call that follows a register which failed over
\* the terms of service is rejected with the "register first" client error
\* and makes no network operation: it does not enter get_authorizations.
ObtainAfterFailedRegisterRefused ==
    [][(RegisterFailedOverTerms /\ auth_handler_set /\ registers' = registers) =>
           /\ c_pc' = "idle"
           /\ client_outcome' =
                  ClientRaise("LetsEncryptClientError", RegisterFirstMsg)
           /\ client_log' = <<>>
           /\ requests' = requests]_vars

=============================================================================
